---- MODULE Spec2Model ----
(***************************************************************************)
(* Verification model of the cat-normalize data pipeline:                  *)
(*   - the event-driven topology defined by OrchestratorConstruct and      *)
(*     CatalogConstruct inside CatEtlStack (S3 object created ->           *)
(*     transform Glue job -> catalog crawler), for both environments;      *)
(*   - the consolidation step of the daily token-analytics job             *)
(*     (consolidar_datos).                                                 *)
(* Strings that are only compared for equality are TLA+ strings; S3 keys   *)
(* and prefixes, which are compared by prefix, are sequences of string     *)
(* fragments whose concatenation is the key.                               *)
(***************************************************************************)
EXTENDS Integers, Sequences, FiniteSets, TLC

\* ------------------------------------------------------------------------
\* Bounds of the orchestration model
\* ------------------------------------------------------------------------
MaxSteps == 2       \* steps that publish events: writes, deletions, ends of runs
MaxRuns == 2        \* Glue job runs ever started

\* ------------------------------------------------------------------------
\* Bounds of the consolidation model
\* ------------------------------------------------------------------------
MaxItems == 8       \* distinct items a source can hold (see ItemOf)
MaxArch == 1        \* rows of the archival object
MaxNew == 2         \* items of the current table
MaxDailyRows == 1   \* rows of each source while the daily job is run repeatedly
MaxDailyRuns == 3   \* runs of the consolidated job that are logged

\* ------------------------------------------------------------------------
\* Bounds of the token-heuristic model
\* ------------------------------------------------------------------------
MaxEntries == 1     \* entries of a message map
MaxBody == 8        \* characters of the body of a text item

\* ------------------------------------------------------------------------
\* Bounds of the price model
\* ------------------------------------------------------------------------
MaxUsageRows == 2   \* token usage rows of one output table

\* ------------------------------------------------------------------------
\* Bounds of the role and pipeline models
\* ------------------------------------------------------------------------
MaxPuts == 2        \* objects written under the stages' roles
MaxExecutions == 2  \* executions of the CI/CD pipeline

VARIABLES
    bus,            \* events published to the default event bus, not yet evaluated
    delivered,      \* events the rules have been evaluated against
    nextId,         \* id of the next event
    steps,          \* number of steps that have published events
    objects,        \* objects written to the buckets: [bucket, key]
    jobRuns,        \* Glue job runs: [jobName, state, startedBy, cause, n]
    apiCalls,       \* API calls made by rule targets: [action, name, cause, target]
    curated,        \* per environment: number of times the Parquet output was written
    catalog,        \* per environment: the version of the Parquet output the catalog reflects
    crawls,         \* per environment: number of crawler runs
    tieOrder,       \* how the build's default sort orders rows of equal create_date
    archivalObj,    \* S3 object tokens_analysis_old_table.csv (under historicalPrefix)
    newTable,       \* items of the current DynamoDB table inside the date filter, in scan order
    consolidatedObj,\* S3 object tokens_analysis_consolidated.csv (under outputPrefix)
    reObj,          \* the consolidation applied to the rows of consolidatedObj
    runStatus,      \* outcome of the last run of the consolidated job
    runLog,         \* per run of the consolidated job: the inputs it read, the object it wrote
    message_map,    \* the message map of one conversation record, in iteration order
    legacy,         \* what extract_tokens_from_messagemap_OLD did on message_map
    enhanced,       \* what extract_tokens_from_messagemap_v2 did on message_map
    usage,          \* token usage rows: [input_token, output_token]
    priced,         \* the price columns computed for the rows of usage
    stackConfig,    \* the configuration object given to a stack constructor
    stackResult,    \* what the stack constructor did with stackConfig
    context,        \* the CDK context value 'environment' of an app run
    envVar,         \* process.env.ENVIRONMENT of an app run
    appRuns,        \* per app entrypoint: what its run did
    puts,           \* objects written under a stage's role: [stage, environment, bucket, key]
    pipelineConfig, \* the configuration the CI/CD pipeline was deployed with
    executions      \* per pipeline execution: its status and the status of each action

orchVars == <<bus, delivered, nextId, steps, objects, jobRuns, apiCalls, curated, catalog, crawls>>

tokVars == <<tieOrder, archivalObj, newTable, consolidatedObj, reObj, runStatus, runLog>>

heurVars == <<message_map, legacy, enhanced>>

priceVars == <<usage, priced>>

cdkVars == <<stackConfig, stackResult, context, envVar, appRuns>>

opsVars == <<puts, pipelineConfig, executions>>

vars == <<orchVars, tokVars, heurVars, priceVars, cdkVars, opsVars>>

\* ------------------------------------------------------------------------
\* Configuration (lib/configs)
\* ------------------------------------------------------------------------
Environments == {"test", "prod"}

testEtlConfig ==
    [environment |-> "test",
     dataBucketName |-> "cat-test-normalize-reports",
     cleanPrefix |-> <<"reports/", "etl-process1", "/">>,
     curatedPrefix |-> <<"reports/", "etl-process2", "/">>,
     athenaResultsPrefix |-> <<"athena/", "results", "/">>]

prodEtlConfig ==
    [environment |-> "prod",
     dataBucketName |-> "cat-prod-normalize-reports",
     cleanPrefix |-> <<"reports/", "etl-process1", "/">>,
     curatedPrefix |-> <<"reports/", "etl-process2", "/">>,
     athenaResultsPrefix |-> <<"athena/", "results", "/">>]

\* the test configuration of the extract stage writing under another prefix
testNormalizeConfig_OtherPrefix ==
    [environment |-> "test",
     s3BucketName |-> "cat-test-normalize-reports",
     s3Prefix |-> <<"reports/", "etl-process0", "/">>,
     schedule |-> [enabled |-> FALSE]]

testNormalizeConfig ==
    [environment |-> "test",
     s3BucketName |-> "cat-test-normalize-reports",
     s3Prefix |-> <<"reports/", "etl-process1", "/">>,
     schedule |-> [enabled |-> FALSE]]

prodNormalizeConfig ==
    [environment |-> "prod",
     s3BucketName |-> "cat-prod-normalize-reports",
     s3Prefix |-> <<"reports/", "etl-process1", "/">>,
     schedule |-> [enabled |-> TRUE]]

NormalizeConfig(environment) ==
    IF environment = "prod" THEN prodNormalizeConfig ELSE testNormalizeConfig

testTokensConfig ==
    [environment |-> "test",
     outputBucket |-> "cat-test-normalize-reports",
     outputPrefix |-> <<"tokens-analysis/">>,
     historicalPrefix |-> <<"tokens-analysis/", "historical", "/">>,
     schedule |-> [enabled |-> FALSE]]

prodTokensConfig ==
    [environment |-> "prod",
     outputBucket |-> "cat-prod-normalize-reports",
     outputPrefix |-> <<"tokens-analysis/">>,
     historicalPrefix |-> <<"archives/", "tokens-analysis/">>,
     schedule |-> [enabled |-> TRUE]]

TokensConfig(environment) ==
    IF environment = "prod" THEN prodTokensConfig ELSE testTokensConfig

EtlConfig(environment) ==
    IF environment = "prod" THEN prodEtlConfig ELSE testEtlConfig

\* TransformJobConstruct: const jobName = `cat-${environment}-etl2-parquet`
jobName(environment) == "cat-" \o environment \o "-etl2-parquet"

\* CatalogConstruct: crawlerName || `cat-${environment}-curated-crawler`
dynamicCrawlerName(environment) == "cat-" \o environment \o "-curated-crawler"

\* ------------------------------------------------------------------------
\* Events and event patterns
\* ------------------------------------------------------------------------
NoKey == <<>>

\* the "prefix" matcher of an event pattern: the value starts with the prefix
StartsWith(key, prefix) ==
    /\ Len(prefix) <= Len(key)
    /\ SubSeq(key, 1, Len(prefix)) = prefix

S3Event(id, detailType, bucket, key) ==
    [id |-> id, source |-> "aws.s3", detailType |-> detailType,
     bucket |-> bucket, key |-> key, jobName |-> "", state |-> ""]

GlueEvent(id, detailType, name, state) ==
    [id |-> id, source |-> "aws.glue", detailType |-> detailType,
     bucket |-> "", key |-> NoKey, jobName |-> name, state |-> state]

\* OnCsvArrived without the key filter: any object created in the data bucket matches
OnCsvArrivedMatches_AnyPrefix(environment, e) ==
    /\ e.source \in {"aws.s3"}
    /\ e.detailType \in {"Object Created"}
    /\ e.bucket \in {EtlConfig(environment).dataBucketName}

\* OnCsvArrived that also matches the failure events of the transform job (a retry)
OnCsvArrivedMatches_RetryOnFailure(environment, e) ==
    \/ /\ e.source \in {"aws.s3"}
       /\ e.detailType \in {"Object Created"}
       /\ e.bucket \in {EtlConfig(environment).dataBucketName}
       /\ \E prefix \in {EtlConfig(environment).cleanPrefix} : StartsWith(e.key, prefix)
    \/ /\ e.source \in {"aws.glue"}
       /\ e.detailType \in {"Glue Job State Change"}
       /\ e.jobName \in {jobName(environment)}
       /\ e.state \in {"FAILED", "TIMEOUT"}

\* OrchestratorConstruct, rule OnCsvArrived: eventPattern
OnCsvArrivedMatches(environment, e) ==
    /\ e.source \in {"aws.s3"}
    /\ e.detailType \in {"Object Created"}
    /\ e.bucket \in {EtlConfig(environment).dataBucketName}
    /\ \E prefix \in {EtlConfig(environment).cleanPrefix} : StartsWith(e.key, prefix)

\* OnCsvArrived with the startJobRun target added twice
OnCsvArrivedTargets_Twice(environment) ==
    << [action |-> "startJobRun", name |-> jobName(environment)],
       [action |-> "startJobRun", name |-> jobName(environment)] >>

\* OrchestratorConstruct: rule.addTarget(AwsApi Glue startJobRun {JobName: glueJobName})
OnCsvArrivedTargets(environment) ==
    << [action |-> "startJobRun", name |-> jobName(environment)] >>

\* CrawlerTriggerRule without the jobName filter: any job's success matches
CrawlerTriggerMatches_AnyJob(environment, e) ==
    /\ e.source \in {"aws.glue"}
    /\ e.detailType \in {"Glue Job State Change"}
    /\ e.state \in {"SUCCEEDED"}

\* CrawlerTriggerRule without the state filter: any terminal state matches
CrawlerTriggerMatches_AnyState(environment, e) ==
    /\ e.source \in {"aws.glue"}
    /\ e.detailType \in {"Glue Job State Change"}
    /\ e.jobName \in {jobName(environment)}

\* CatalogConstruct, rule CrawlerTriggerRule: eventPattern
CrawlerTriggerMatches(environment, e) ==
    /\ e.source \in {"aws.glue"}
    /\ e.detailType \in {"Glue Job State Change"}
    /\ e.jobName \in {jobName(environment)}
    /\ e.state \in {"SUCCEEDED"}

\* CrawlerTriggerRule without a target
CrawlerTriggerTargets_NoTarget(environment) == <<>>

\* CatalogConstruct: crawlerTriggerRule.addTarget(AwsApi Glue startCrawler {Name})
CrawlerTriggerTargets(environment) ==
    << [action |-> "startCrawler", name |-> dynamicCrawlerName(environment)] >>

\* the rules one CatEtlStack defines, in creation order (Catalog, then Orchestrator)
StackTargetCalls(environment, e) ==
    (IF CrawlerTriggerMatches(environment, e)
        THEN CrawlerTriggerTargets(environment) ELSE <<>>)
    \o
    (IF OnCsvArrivedMatches(environment, e)
        THEN OnCsvArrivedTargets(environment) ELSE <<>>)

\* both environments' stacks are deployed (bin/cat-normalize.ts deploys one per environment)
TargetCalls(e) == StackTargetCalls("test", e) \o StackTargetCalls("prod", e)

CallsNamed(calls, action, name) ==
    {i \in DOMAIN calls : calls[i].action = action /\ calls[i].name = name}

\* ------------------------------------------------------------------------
\* Inputs of the orchestration model
\* ------------------------------------------------------------------------
ExtractKey == <<"reports/", "etl-process1", "/", "data.csv">>
ParquetKey == <<"reports/", "etl-process2", "/", "data.parquet">>
SiblingKey == <<"reports/", "etl-process1", "0/", "data.csv">>
TokensKey == <<"tokens-analysis/", "tokens_analysis_consolidated.csv">>

\* Objects written in the model: the extract output of each environment, the
\* same key in a bucket of no environment, a key of a sibling prefix that
\* shares the characters of cleanPrefix up to its final "/", and a
\* token-analytics output.
Writes ==
    { [bucket |-> testEtlConfig.dataBucketName, key |-> ExtractKey],
      [bucket |-> prodEtlConfig.dataBucketName, key |-> ExtractKey],
      [bucket |-> "other-bucket", key |-> ExtractKey],
      [bucket |-> testEtlConfig.dataBucketName, key |-> SiblingKey],
      [bucket |-> prodEtlConfig.dataBucketName, key |-> TokensKey] }

TerminalStates == {"SUCCEEDED", "FAILED", "TIMEOUT", "STOPPED"}

EnvOfJob(name) == CHOOSE environment \in Environments : jobName(environment) = name

\* ------------------------------------------------------------------------
\* Initial state: stacks deployed, nothing written, no run
\* ------------------------------------------------------------------------
InitOrch ==
    /\ bus = {}
    /\ delivered = {}
    /\ nextId = 1
    /\ steps = 0
    /\ objects = {}
    /\ jobRuns = {}
    /\ apiCalls = {}
    /\ curated = [environment \in Environments |-> 0]
    /\ catalog = [environment \in Environments |-> 0]
    /\ crawls = [environment \in Environments |-> 0]

\* ------------------------------------------------------------------------
\* Actions
\* ------------------------------------------------------------------------

\* A stage (or an operator) writes an object; the buckets are created with
\* eventBridgeEnabled: true, so S3 publishes "Object Created".
PutObject(bucket, key) ==
    /\ steps < MaxSteps
    /\ [bucket |-> bucket, key |-> key] \in Writes
    /\ objects' = objects \cup {[bucket |-> bucket, key |-> key]}
    /\ bus' = bus \cup {S3Event(nextId, "Object Created", bucket, key)}
    /\ nextId' = nextId + 1
    /\ steps' = steps + 1
    /\ UNCHANGED <<delivered, jobRuns, apiCalls, curated, catalog, crawls>>
    /\ UNCHANGED <<tokVars, heurVars, priceVars, cdkVars, opsVars>>

\* An object is removed; S3 publishes "Object Deleted" for the same bucket and key.
DeleteObject(o) ==
    /\ steps < MaxSteps
    /\ o \in objects
    /\ objects' = objects \ {o}
    /\ bus' = bus \cup {S3Event(nextId, "Object Deleted", o.bucket, o.key)}
    /\ nextId' = nextId + 1
    /\ steps' = steps + 1
    /\ UNCHANGED <<delivered, jobRuns, apiCalls, curated, catalog, crawls>>
    /\ UNCHANGED <<tokVars, heurVars, priceVars, cdkVars, opsVars>>

\* An operator starts the transform job by hand (console or CLI); n numbers
\* the manual runs.
ManualStart(environment) ==
    /\ Cardinality(jobRuns) < MaxRuns
    /\ jobRuns' = jobRuns \cup
          {[jobName |-> jobName(environment), state |-> "RUNNING", startedBy |-> "manual",
            cause |-> 0,
            n |-> Cardinality({r \in jobRuns : r.startedBy = "manual"}) + 1]}
    /\ UNCHANGED <<bus, delivered, nextId, steps, objects, apiCalls, curated, catalog, crawls>>
    /\ UNCHANGED <<tokVars, heurVars, priceVars, cdkVars, opsVars>>

\* A run of the transform job ends. Glue publishes "Glue Job State Change";
\* a successful run has overwritten the single Parquet output under curatedPrefix.
JobRunEnds(run, state) ==
    /\ run \in jobRuns
    /\ run.state = "RUNNING"
    /\ steps < MaxSteps
    /\ steps' = steps + 1
    /\ LET name == run.jobName
           environment == EnvOfJob(name)
           cfg == EtlConfig(environment)
       IN IF state = "SUCCEEDED"
          THEN /\ objects' = objects \cup {[bucket |-> cfg.dataBucketName, key |-> ParquetKey]}
               /\ curated' = [curated EXCEPT ![environment] = @ + 1]
               /\ bus' = bus \cup
                    { S3Event(nextId, "Object Created", cfg.dataBucketName, ParquetKey),
                      GlueEvent(nextId + 1, "Glue Job State Change", name, state) }
               /\ nextId' = nextId + 2
          ELSE /\ bus' = bus \cup {GlueEvent(nextId, "Glue Job State Change", name, state)}
               /\ nextId' = nextId + 1
               /\ UNCHANGED <<objects, curated>>
    /\ jobRuns' = (jobRuns \ {run}) \cup {[run EXCEPT !.state = state]}
    /\ UNCHANGED <<delivered, apiCalls, catalog, crawls>>
    /\ UNCHANGED <<tokVars, heurVars, priceVars, cdkVars, opsVars>>

\* Another Glue job of the account succeeds.
OtherJobSucceeds ==
    /\ steps < MaxSteps
    /\ bus' = bus \cup {GlueEvent(nextId, "Glue Job State Change", "other-job", "SUCCEEDED")}
    /\ nextId' = nextId + 1
    /\ steps' = steps + 1
    /\ UNCHANGED <<delivered, objects, jobRuns, apiCalls, curated, catalog, crawls>>
    /\ UNCHANGED <<tokVars, heurVars, priceVars, cdkVars, opsVars>>

\* The event bus evaluates an event against every rule and invokes the
\* targets of the rules that match: startJobRun creates a run, startCrawler
\* crawls the curated output and updates the catalog. A call records the
\* event that caused it and the position of its target among those invoked.
DeliverEvent(e) ==
    /\ e \in bus
    /\ LET calls == TargetCalls(e)
           starts == {i \in DOMAIN calls : calls[i].action = "startJobRun"}
       IN /\ Cardinality(jobRuns) + Cardinality(starts) <= MaxRuns
          /\ apiCalls' = apiCalls \cup
                {[action |-> calls[i].action, name |-> calls[i].name,
                  cause |-> e, target |-> i] : i \in DOMAIN calls}
          /\ jobRuns' = jobRuns \cup
                {[jobName |-> calls[i].name, state |-> "RUNNING",
                  startedBy |-> "rule", cause |-> e.id, n |-> i] : i \in starts}
          /\ catalog' = [environment \in Environments |->
                IF CallsNamed(calls, "startCrawler", dynamicCrawlerName(environment)) # {}
                    THEN curated[environment] ELSE catalog[environment]]
          /\ crawls' = [environment \in Environments |->
                crawls[environment] +
                Cardinality(CallsNamed(calls, "startCrawler", dynamicCrawlerName(environment)))]
    /\ bus' = bus \ {e}
    /\ delivered' = delivered \cup {e}
    /\ UNCHANGED <<nextId, steps, objects, curated>>
    /\ UNCHANGED <<tokVars, heurVars, priceVars, cdkVars, opsVars>>

\* the stages that write to the shared bucket besides the run of the
\* transform job: the extract function, the deployment of the Glue script,
\* Athena queries, and the two token functions
Stages == {"extract", "script", "athena", "archival", "consolidated"}

StageBucket(stage, environment) ==
    CASE stage = "extract" -> NormalizeConfig(environment).s3BucketName
      [] stage \in {"script", "athena"} -> EtlConfig(environment).dataBucketName
      [] stage \in {"archival", "consolidated"} -> TokensConfig(environment).outputBucket

\* the key of the object a stage writes: its configured prefix, then a file name
StageKey(stage, environment) ==
    CASE stage = "extract" -> NormalizeConfig(environment).s3Prefix \o <<"data.csv">>
      [] stage = "script" ->
            EtlConfig(environment).curatedPrefix \o <<"scripts/", "glue_job_script.py">>
      [] stage = "athena" -> EtlConfig(environment).athenaResultsPrefix \o <<"query.csv">>
      [] stage = "archival" ->
            TokensConfig(environment).historicalPrefix \o <<"tokens_analysis_old_table.csv">>
      [] stage = "consolidated" ->
            TokensConfig(environment).outputPrefix \o <<"tokens_analysis_consolidated.csv">>

\* A stage completes and writes its object; the bucket is created with
\* eventBridgeEnabled: true, so S3 publishes "Object Created".
StageWrite(stage, environment) ==
    /\ steps < MaxSteps
    /\ objects' = objects \cup
          {[bucket |-> StageBucket(stage, environment), key |-> StageKey(stage, environment)]}
    /\ bus' = bus \cup {S3Event(nextId, "Object Created", StageBucket(stage, environment),
                                StageKey(stage, environment))}
    /\ nextId' = nextId + 1
    /\ steps' = steps + 1
    /\ UNCHANGED <<delivered, jobRuns, apiCalls, curated, catalog, crawls>>
    /\ UNCHANGED <<tokVars, heurVars, priceVars, cdkVars, opsVars>>

NextOrch ==
    \/ \E w \in Writes : PutObject(w.bucket, w.key)
    \/ \E o \in objects : DeleteObject(o)
    \/ \E environment \in Environments : ManualStart(environment)
    \/ \E run \in jobRuns, state \in TerminalStates : JobRunEnds(run, state)
    \/ OtherJobSucceeds
    \/ \E e \in bus : DeliverEvent(e)


\* ------------------------------------------------------------------------
\* Token analytics: the consolidated (daily) job and its consolidation step
\* (lambda/tokens-process: tokens_lambda.py as documented in its README)
\* ------------------------------------------------------------------------
CsvHeader == <<"create_date", "input_token", "pk", "sk", "source">>

NoObject == [exists |-> FALSE, header |-> <<>>, lines |-> <<>>]

\* DataFrame.to_csv: header row first, then one delimited line per row
to_csv(df) ==
    [exists |-> TRUE,
     header |-> CsvHeader,
     lines |-> [i \in DOMAIN df |->
                  <<df[i].create_date, df[i].input_token, df[i].pk, df[i].sk, df[i].source>>]]

\* pd.read_csv: the lines after the header, one row per line, columns by position
read_csv(obj) ==
    [i \in DOMAIN obj.lines |->
        [create_date |-> obj.lines[i][1], input_token |-> obj.lines[i][2],
         pk |-> obj.lines[i][3], sk |-> obj.lines[i][4], source |-> obj.lines[i][5]]]

\* reading the archival object fails when the object is missing
leer_historico_Raises(obj) ==
    IF obj.exists THEN [ok |-> TRUE, df |-> read_csv(obj)] ELSE [ok |-> FALSE, df |-> <<>>]

\* The daily job reads the archival CSV; a missing object is an empty
\* historical half, not an error.
leer_historico(obj) ==
    IF obj.exists THEN [ok |-> TRUE, df |-> read_csv(obj)] ELSE [ok |-> TRUE, df |-> <<>>]

\* rows of a source: every row carries the source discriminator
TagSource(items, source) ==
    [i \in DOMAIN items |->
        [create_date |-> items[i].create_date, input_token |-> items[i].input_token,
         pk |-> items[i].pk, sk |-> items[i].sk, source |-> source]]

\* the new rows carrying the discriminator of the archival source
datos_de_tabla_nueva_Untagged(items) == TagSource(items, "old_table")

\* the rows the daily job computes from the current table
datos_de_tabla_nueva(items) == TagSource(items, "new_table")

\* pd.concat with the two frames in the opposite order
pd_concat_NewFirst(df_historico, df_nuevos) == df_nuevos \o df_historico

\* pd.concat([df_historico, df_nuevos])
pd_concat(df_historico, df_nuevos) == df_historico \o df_nuevos

RowKey(row) == <<row.pk, row.sk>>

RECURSIVE DropSeen(_, _)
DropSeen(df, seen) ==
    IF df = <<>> THEN <<>>
    ELSE IF RowKey(Head(df)) \in seen
         THEN DropSeen(Tail(df), seen)
         ELSE <<Head(df)>> \o DropSeen(Tail(df), seen \cup {RowKey(Head(df))})

RECURSIVE DropSeenRows(_, _)
DropSeenRows(df, seen) ==
    IF df = <<>> THEN <<>>
    ELSE IF Head(df) \in seen
         THEN DropSeenRows(Tail(df), seen)
         ELSE <<Head(df)>> \o DropSeenRows(Tail(df), seen \cup {Head(df)})

\* drop_duplicates() without subset: only rows equal in every column are duplicates
drop_duplicates_AllColumns(df) == DropSeenRows(df, {})

\* df.drop_duplicates(subset=['pk', 'sk']) (keep='first'): a row is dropped
\* when an earlier row has the same pk and sk
drop_duplicates(df) == DropSeen(df, {})

Reverse(s) == [i \in DOMAIN s |-> s[Len(s) + 1 - i]]

RECURSIVE InsertAscending(_, _)
InsertAscending(sorted, row) ==
    IF sorted = <<>> THEN <<row>>
    ELSE IF Head(sorted).create_date <= row.create_date
         THEN <<Head(sorted)>> \o InsertAscending(Tail(sorted), row)
         ELSE <<row>> \o sorted

\* ascending sort that keeps rows of equal create_date in their input order
RECURSIVE StableAscending(_)
StableAscending(df) ==
    IF df = <<>> THEN <<>>
    ELSE InsertAscending(StableAscending(SubSeq(df, 1, Len(df) - 1)), df[Len(df)])

\* The default sort kind of sort_values is quicksort, which is not stable: the
\* order of rows with equal create_date is a function of the input that the
\* libraries leave open. Two such functions are modelled: rows of equal
\* create_date stay in input order, or come out in the opposite order.
TieOrders == {"kept", "reversed"}

\* sort_values('create_date') with the default ascending=True
sort_values_Ascending(df) ==
    IF tieOrder = "kept" THEN StableAscending(df) ELSE Reverse(StableAscending(Reverse(df)))

\* df.sort_values('create_date', ascending=False)
sort_values(df) ==
    IF tieOrder = "kept"
        THEN Reverse(StableAscending(Reverse(df)))
        ELSE Reverse(StableAscending(df))

\* the consolidation without the final sort
consolidar_datos_NoSort(datos_nuevos, df_historico) ==
    drop_duplicates(pd_concat(df_historico, datos_nuevos))

\* consolidar_datos(datos_nuevos, df_historico)
consolidar_datos(datos_nuevos, df_historico) ==
    sort_values(drop_duplicates(pd_concat(df_historico, datos_nuevos)))

\* the daily job merging the object it wrote before into its inputs
SalidaDiaria_MergePrevious(df_historico, datos_nuevos, previous) ==
    consolidar_datos(datos_nuevos, pd_concat(read_csv(previous), df_historico))

\* the table the daily job writes: the consolidation of the archival rows
\* and the new rows; the object written by an earlier run is not an input
SalidaDiaria(df_historico, datos_nuevos, previous) ==
    consolidar_datos(datos_nuevos, df_historico)

\* ------------------------------------------------------------------------
\* Inputs of the consolidation model
\* ------------------------------------------------------------------------
\* The k-th item of the enumeration of items by payload (input_token), then
\* partition key, then create_date, then sort key: the first eight are the
\* items of two payloads, two partition keys and two dates with one sort key.
ItemOf(k) ==
    [input_token |-> 1 + (k % 2),
     pk |-> 1 + ((k \div 2) % 2),
     create_date |-> 1 + ((k \div 4) % 2),
     sk |-> 1 + (k \div 8)]

Items == {ItemOf(k) : k \in 0..(MaxItems - 1)}

SeqsUpTo(S, n) == UNION {[1..k -> S] : k \in 0..n}

\* items of distinct keys and equal create_date, for the runs of the daily job
DailyItems == {item \in Items : item.create_date = 1 /\ item.input_token = 1 /\ item.sk = 1}

\* what the archival job, run by hand once per environment, has left in
\* storage: nothing when it has not run, else the object it wrote
ArchivalObjects(S, n) ==
    {NoObject} \cup {to_csv(TagSource(items, "old_table")) : items \in SeqsUpTo(S, n)}

TokIdle ==
    /\ tieOrder = "kept"
    /\ archivalObj = NoObject
    /\ newTable = <<>>
    /\ consolidatedObj = NoObject
    /\ reObj = NoObject
    /\ runStatus = "none"
    /\ runLog = <<>>

\* ------------------------------------------------------------------------
\* Actions of the token-analytics jobs
\* ------------------------------------------------------------------------

\* One run of the consolidated job: read the current table, read the
\* archival CSV, consolidate, overwrite the consolidated CSV.
ConsolidatedRun(maxRuns) ==
    /\ Len(runLog) < maxRuns
    /\ LET datos_nuevos == datos_de_tabla_nueva(newTable)
           historico == leer_historico(archivalObj)
           salida == to_csv(SalidaDiaria(historico.df, datos_nuevos, consolidatedObj))
       IN IF historico.ok
          THEN /\ consolidatedObj' = salida
               /\ runStatus' = "ok"
               /\ runLog' = Append(runLog, [historical |-> archivalObj, table |-> newTable,
                                             status |-> "ok", out |-> salida])
          ELSE /\ runStatus' = "error"
               /\ runLog' = Append(runLog, [historical |-> archivalObj, table |-> newTable,
                                             status |-> "error", out |-> consolidatedObj])
               /\ UNCHANGED consolidatedObj
    /\ UNCHANGED <<tieOrder, archivalObj, newTable, reObj>>
    /\ UNCHANGED <<orchVars, heurVars, priceVars, cdkVars, opsVars>>

\* The consolidation applied once more, to the table a run has produced.
Reconsolidate ==
    /\ consolidatedObj.exists
    /\ reObj = NoObject
    /\ reObj' = to_csv(consolidar_datos(<<>>, read_csv(consolidatedObj)))
    /\ UNCHANGED <<tieOrder, archivalObj, newTable, consolidatedObj, runStatus, runLog>>
    /\ UNCHANGED <<orchVars, heurVars, priceVars, cdkVars, opsVars>>

\* The chat system changes the content of the current table.
TableWrite(items) ==
    /\ newTable' = items
    /\ newTable' # newTable
    /\ UNCHANGED <<tieOrder, archivalObj, consolidatedObj, reObj, runStatus, runLog>>
    /\ UNCHANGED <<orchVars, heurVars, priceVars, cdkVars, opsVars>>

\* ------------------------------------------------------------------------
\* Token analytics: the two token heuristics
\* (lambda/tokens-process: archival_lambda.py and tokens_lambda.py as
\* documented in the README)
\* ------------------------------------------------------------------------

\* Python values of a message map. A str is the sequence of its characters.
\* A value that can be of several Python types is a record with the same
\* fields for every type and a `kind` that names the type; "missing" is a
\* key the dict does not hold, "none" is None.
NoStr == <<>>

StrOfLen(n) == [i \in 1..n |-> "x"]

\* a role: missing, None, or a str
Role(kind, s) == [kind |-> kind, s |-> s]

\* body['input'] of a toolUse item: missing, or a dict of str keys and str values
ToolInput(present, pairs) == [present |-> present, pairs |-> pairs]

\* an element of body['content'] of a toolResult item: a str, or {'text': str}
ResultElem(kind, text) == [kind |-> kind, text |-> text]

\* body['content'] of a toolResult item: missing, or a list
ToolContent(present, elems) == [present |-> present, elems |-> elems]

\* a body: missing, None, an int, a str, or a dict with the keys 'input'
\* and 'content' that are present
Body(kind, s, input, content) ==
    [kind |-> kind, s |-> s, input |-> input, content |-> content]

NoInput == ToolInput(FALSE, <<>>)

NoContent == ToolContent(FALSE, <<>>)

BodyMissing == Body("missing", NoStr, NoInput, NoContent)

BodyNone == Body("none", NoStr, NoInput, NoContent)

BodyInt == Body("int", NoStr, NoInput, NoContent)

BodyStr(s) == Body("str", s, NoInput, NoContent)

BodyDict(input, content) == Body("dict", NoStr, input, content)

\* a content item: a dict with an optional content_type and an optional
\* body, or a value that is no dict
Item(isDict, content_type, body) ==
    [isDict |-> isDict, content_type |-> content_type, body |-> body]

\* a message-map entry: role and content (missing, None, or a list of items)
Entry(role, contentKind, items) ==
    [role |-> role, contentKind |-> contentKind, items |-> items]

\* what a heuristic did: it returned the pair, or an exception left it
Returned(input_tokens, output_tokens) ==
    [raised |-> FALSE, input_tokens |-> input_tokens, output_tokens |-> output_tokens]

Raised == [raised |-> TRUE, input_tokens |-> 0, output_tokens |-> 0]

NotRun == [raised |-> FALSE, input_tokens |-> -1, output_tokens |-> -1]

\* str.lower() on the roles of the model
lower(s) ==
    CASE s = "User" -> "user"
      [] s = "ASSISTANT" -> "assistant"
      [] OTHER -> s

\* len(body): the characters of a str, the keys of a dict; None and int have no len()
len(body) ==
    CASE body.kind = "str" -> [ok |-> TRUE, n |-> Len(body.s)]
      [] body.kind = "dict" ->
            [ok |-> TRUE,
             n |-> (IF body.input.present THEN 1 ELSE 0)
                   + (IF body.content.present THEN 1 ELSE 0)]
      [] OTHER -> [ok |-> FALSE, n |-> 0]

\* len(body) // 4 rounded up instead of down
LengthDiv4_Ceiling(n) == (n + 3) \div 4

\* tokens = len(body) // 4
LengthDiv4(n) == n \div 4

\* extract_tokens_from_messagemap_OLD: one item of an entry's content list.
\* acc is the pair of totals so far, or Raised.
RECURSIVE LegacyItems(_, _, _)
LegacyItems(items, role, acc) ==
    IF acc.raised \/ items = <<>> THEN acc
    ELSE LET item == Head(items)
         IN IF item.isDict /\ item.body.kind # "missing"
            THEN LET n == len(item.body)
                     tokens == LengthDiv4(n.n)
                 IN IF ~n.ok THEN Raised
                    ELSE IF role \in {"user", "system"}
                         THEN LegacyItems(Tail(items), role,
                                  Returned(acc.input_tokens + tokens, acc.output_tokens))
                    ELSE IF role \in {"assistant", "bot"}
                         THEN LegacyItems(Tail(items), role,
                                  Returned(acc.input_tokens, acc.output_tokens + tokens))
                    ELSE LegacyItems(Tail(items), role, acc)
            ELSE LegacyItems(Tail(items), role, acc)

\* extract_tokens_from_messagemap_OLD: the loop over the entries
RECURSIVE LegacyEntries(_, _)
LegacyEntries(entries, acc) ==
    IF acc.raised \/ entries = <<>> THEN acc
    ELSE LET value == Head(entries)
         IN IF value.role.kind = "none"
            THEN Raised   \* None has no lower()
            ELSE LET role == IF value.role.kind = "missing" THEN "" ELSE lower(value.role.s)
                 IN IF value.contentKind = "list"
                    THEN LegacyEntries(Tail(entries), LegacyItems(value.items, role, acc))
                    ELSE LegacyEntries(Tail(entries), acc)

\* the legacy heuristic with the two totals exchanged
extract_tokens_from_messagemap_OLD_Swapped(map) ==
    LET r == LegacyEntries(map, Returned(0, 0))
    IN IF r.raised THEN r ELSE Returned(r.output_tokens, r.input_tokens)

\* extract_tokens_from_messagemap_OLD(message_map)
extract_tokens_from_messagemap_OLD(map) == LegacyEntries(map, Returned(0, 0))

\* json.dumps of a dict of str keys and str values (default separators):
\* {"k": "v", "k2": "v2"}
RECURSIVE json_dumps_pairs(_)
json_dumps_pairs(pairs) ==
    IF pairs = <<>> THEN <<>>
    ELSE <<"\"">> \o Head(pairs)[1] \o <<"\"", ":", " ", "\"">> \o Head(pairs)[2] \o <<"\"">>
         \o (IF Tail(pairs) = <<>> THEN <<>> ELSE <<",", " ">> \o json_dumps_pairs(Tail(pairs)))

\* the serialization without the enclosing braces
json_dumps_NoBraces(tool_input) == json_dumps_pairs(tool_input)

json_dumps(tool_input) == <<"{">> \o json_dumps_pairs(tool_input) \o <<"}">>

\* str(r) of an element of a toolResult content list: a str is itself, a
\* dict {'text': t} is its repr {'text': 't'}
str(r) ==
    IF r.kind = "str" THEN r.text
    ELSE <<"{", "'", "t", "e", "x", "t", "'", ":", " ", "'">> \o r.text \o <<"'", "}">>

\* calculate_tokens(text): LENGTH(text) / 4 of a str
calculate_tokens(text) == LengthDiv4(Len(text))

\* calculate_tokens(item.get('body', '')) of a text item: a body that is
\* missing or no str counts zero
calculate_tokens_of_body(body) ==
    IF body.kind = "str" THEN calculate_tokens(body.s) ELSE 0

\* a text item's count goes to the side of the entry's role; any other
\* role, None included, contributes zero
route_by_role(tokens, parent_role) ==
    IF parent_role.kind = "str" /\ parent_role.s \in {"user", "system"}
        THEN Returned(tokens, 0)
    ELSE IF parent_role.kind = "str" /\ parent_role.s \in {"assistant", "bot"}
        THEN Returned(0, tokens)
    ELSE Returned(0, 0)

RECURSIVE SumTokens(_)
SumTokens(result_content) ==
    IF result_content = <<>> THEN 0
    ELSE calculate_tokens(str(Head(result_content))) + SumTokens(Tail(result_content))

\* process_content_item with the toolUse count returned on the input side
process_content_item_ToolUseAsInput(item, parent_role) ==
    LET content_type == IF item.content_type.kind = "missing" THEN "text"
                        ELSE item.content_type.s
    IN CASE content_type = "text" ->
                route_by_role(calculate_tokens_of_body(item.body), parent_role)
         [] content_type = "toolUse" ->
                IF item.body.kind \in {"none", "int", "str"} THEN Raised
                ELSE Returned(calculate_tokens(json_dumps(item.body.input.pairs)), 0)
         [] content_type = "toolResult" ->
                IF item.body.kind \in {"none", "int", "str"} THEN Raised
                ELSE Returned(SumTokens(item.body.content.elems), 0)
         [] OTHER -> Returned(0, 0)

\* process_content_item(item, parent_role)
process_content_item(item, parent_role) ==
    LET content_type == IF item.content_type.kind = "missing" THEN "text"
                        ELSE item.content_type.s
    IN CASE content_type = "text" ->
                route_by_role(calculate_tokens_of_body(item.body), parent_role)
         [] content_type = "toolUse" ->
                \* item.get('body', {}).get('input', {}): only a dict has get()
                IF item.body.kind \in {"none", "int", "str"} THEN Raised
                ELSE Returned(0, calculate_tokens(json_dumps(item.body.input.pairs)))
         [] content_type = "toolResult" ->
                IF item.body.kind \in {"none", "int", "str"} THEN Raised
                ELSE Returned(SumTokens(item.body.content.elems), 0)
         [] OTHER -> Returned(0, 0)

\* process_node_content(content, role): the sum of process_content_item
\* over the items of a content list; content that is no list and items
\* that are no dict contribute zero
RECURSIVE process_node_content(_, _, _)
process_node_content(items, role, acc) ==
    IF acc.raised \/ items = <<>> THEN acc
    ELSE LET item == Head(items)
             r == IF item.isDict THEN process_content_item(item, role) ELSE Returned(0, 0)
         IN IF r.raised THEN Raised
            ELSE process_node_content(Tail(items), role,
                     Returned(acc.input_tokens + r.input_tokens,
                              acc.output_tokens + r.output_tokens))

\* extract_tokens_from_messagemap_v2: the loop over the nodes
RECURSIVE EnhancedNodes(_, _)
EnhancedNodes(nodes, acc) ==
    IF acc.raised \/ nodes = <<>> THEN acc
    ELSE LET node_data == Head(nodes)
             node == IF node_data.contentKind = "list"
                     THEN process_node_content(node_data.items, node_data.role, Returned(0, 0))
                     ELSE Returned(0, 0)
         IN IF node.raised THEN Raised
            ELSE EnhancedNodes(Tail(nodes),
                     Returned(acc.input_tokens + node.input_tokens,
                              acc.output_tokens + node.output_tokens))

\* the enhanced heuristic counting every node twice
extract_tokens_from_messagemap_v2_Doubled(map) ==
    LET r == EnhancedNodes(map, Returned(0, 0))
    IN IF r.raised THEN r ELSE Returned(2 * r.input_tokens, 2 * r.output_tokens)

\* extract_tokens_from_messagemap_v2(message_map)
extract_tokens_from_messagemap_v2(map) == EnhancedNodes(map, Returned(0, 0))

\* ------------------------------------------------------------------------
\* Inputs of the token heuristics
\* ------------------------------------------------------------------------
RoleStr(s) == Role("str", s)

\* roles: missing, None, the four recognized ones, an unrecognized one, and
\* a recognized one written with a capital
Roles ==
    {Role("missing", ""), Role("none", ""), RoleStr("user"), RoleStr("system"),
     RoleStr("assistant"), RoleStr("bot"), RoleStr("tool"), RoleStr("User")}

ContentType(s) == [kind |-> "str", s |-> s]

NoContentType == [kind |-> "missing", s |-> ""]

\* the tool input {"a": "bcd"}
ScenarioInput == ToolInput(TRUE, << << <<"a">>, <<"b", "c", "d">> >> >>)

ResultLists ==
    {<<>>,
     <<ResultElem("str", StrOfLen(4))>>,
     <<ResultElem("str", StrOfLen(5)), ResultElem("dict", StrOfLen(3))>>}

TextItems ==
    {Item(TRUE, ContentType("text"), body) :
        body \in {BodyMissing, BodyNone, BodyInt, BodyStr(StrOfLen(0)), BodyStr(StrOfLen(4)),
                  BodyStr(StrOfLen(9)), BodyDict(ScenarioInput, NoContent)}}
    \cup {Item(TRUE, NoContentType, BodyStr(StrOfLen(4)))}

ToolUseItems ==
    {Item(TRUE, ContentType("toolUse"), body) :
        body \in {BodyMissing, BodyNone, BodyStr(StrOfLen(4)),
                  BodyDict(ScenarioInput, NoContent), BodyDict(NoInput, NoContent)}}

ToolResultItems ==
    {Item(TRUE, ContentType("toolResult"), body) :
        body \in {BodyMissing, BodyNone, BodyDict(NoInput, NoContent)}
                 \cup {BodyDict(NoInput, ToolContent(TRUE, elems)) : elems \in ResultLists}}

OtherItems ==
    {Item(TRUE, ContentType("image"), BodyStr(StrOfLen(4))),
     Item(TRUE, ContentType("image"), BodyMissing),
     Item(FALSE, NoContentType, BodyMissing)}

ContentItems == TextItems \cup ToolUseItems \cup ToolResultItems \cup OtherItems

\* one item of each content type, for the content lists of two items
PairItems ==
    {Item(TRUE, ContentType("text"), BodyStr(StrOfLen(4))),
     Item(TRUE, ContentType("toolUse"), BodyDict(ScenarioInput, NoContent)),
     Item(TRUE, ContentType("toolResult"),
          BodyDict(NoInput, ToolContent(TRUE, <<ResultElem("str", StrOfLen(4))>>)))}

\* entries: content missing, None, or a list of no item, one item, or two
Entries ==
    {Entry(role, kind, <<>>) : role \in Roles, kind \in {"missing", "none", "list"}}
    \cup {Entry(role, "list", <<item>>) : role \in Roles, item \in ContentItems}
    \cup {Entry(role, "list", <<i1, i2>>) : role \in Roles, i1 \in PairItems, i2 \in PairItems}

MessageMaps(n) == UNION {[1..k -> Entries] : k \in 0..n}

\* two text items with str bodies, one in a user entry, one in an assistant entry
TextMap(n1, n2) ==
    << Entry(RoleStr("user"), "list",
             <<Item(TRUE, ContentType("text"), BodyStr(StrOfLen(n1)))>>),
       Entry(RoleStr("assistant"), "list",
             <<Item(TRUE, ContentType("text"), BodyStr(StrOfLen(n2)))>>) >>

HeurIdle ==
    /\ message_map = <<>>
    /\ legacy = NotRun
    /\ enhanced = NotRun

\* ------------------------------------------------------------------------
\* Actions of the token heuristics
\* ------------------------------------------------------------------------

\* the archival job applies the legacy heuristic to the record
ExtractLegacy ==
    /\ legacy = NotRun
    /\ legacy' = extract_tokens_from_messagemap_OLD(message_map)
    /\ UNCHANGED <<message_map, enhanced>>
    /\ UNCHANGED <<orchVars, tokVars, priceVars, cdkVars, opsVars>>

\* the daily job applies the enhanced heuristic to the record
ExtractEnhanced ==
    /\ enhanced = NotRun
    /\ enhanced' = extract_tokens_from_messagemap_v2(message_map)
    /\ UNCHANGED <<message_map, legacy>>
    /\ UNCHANGED <<orchVars, tokVars, priceVars, cdkVars, opsVars>>

\* ------------------------------------------------------------------------
\* Prices of the token usage rows
\* ------------------------------------------------------------------------

\* a price of 1K input tokens that is no whole number of micro-USD per token
price_in_Fractional == 3000 + 500

\* price of 1K input tokens, in micro-USD ($0.003)
price_in == 3000

\* price of 1K output tokens, in micro-USD ($0.015)
price_out == 15000

\* tokens / 1000 * price: an amount of money, exact, in thousandths of a
\* micro-USD (price being in micro-USD per 1K tokens)
Amount(tokens, price) == tokens * price

\* an amount rounded to 6 fractional digits of a USD, half to even: the
\* number of micro-USD of the DECIMAL(10,6) column
round6(amount) ==
    LET q == amount \div 1000
        r == amount % 1000
    IN IF r > 500 \/ (r = 500 /\ q % 2 = 1) THEN q + 1 ELSE q

\* the price columns of a usage row, in micro-USD
PriceRow(row) ==
    [input_token |-> row.input_token,
     output_token |-> row.output_token,
     precio_token_input |-> round6(Amount(row.input_token, price_in)),
     precio_token_output |-> round6(Amount(row.output_token, price_out)),
     total_price |-> round6(Amount(row.input_token, price_in)
                            + Amount(row.output_token, price_out))]

\* token counts of a row: none, one, below and at 1K, the documented example
TokenCounts == {0, 1, 999, 1000, 1234, 5678}

UsageRows == [input_token : TokenCounts, output_token : TokenCounts]

UsageTables(n) == UNION {[1..k -> UsageRows] : k \in 0..n}

NotPriced == [done |-> FALSE, rows |-> <<>>]

PriceIdle ==
    /\ usage = <<>>
    /\ priced = NotPriced

\* the job computes the price columns of every row of its output table
ComputePrices ==
    /\ ~priced.done
    /\ priced' = [done |-> TRUE, rows |-> [i \in DOMAIN usage |-> PriceRow(usage[i])]]
    /\ UNCHANGED usage
    /\ UNCHANGED <<orchVars, tokVars, heurVars, cdkVars, opsVars>>

\* ------------------------------------------------------------------------
\* CDK stacks: configuration objects and constructors
\* ------------------------------------------------------------------------

\* what a string field of a configuration object holds: nothing
\* (undefined), the empty string, or a non-empty string
FieldKinds == {"undefined", "empty", "value"}

\* an object field: undefined, or an object with its members
ObjectKinds == {"undefined", "value"}

\* schedule: undefined, an object with enabled: true, or with enabled: false
ScheduleKinds == {"undefined", "value", "disabled"}

\* dateFilter: undefined, an object of dates 'YYYY-MM-DD', or an object
\* with a date that is a string of another form
DateFilterKinds == {"undefined", "value", "malformed"}

\* github: undefined, an object with a connectionArn, or with an empty one
GithubKinds == {"undefined", "value", "noArn"}

\* !value
Falsy(value) == value \in {"undefined", "empty"}

NoError == [kind |-> "none", field |-> ""]

\* new Error(`Missing required configuration: ${field}`)
MissingRequired(field) == [kind |-> "Error", field |-> field]

\* new Error(`Invalid GitHub connectionArn. ...`)
InvalidConnectionArn == [kind |-> "Error", field |-> "github.connectionArn"]

\* a member of config[field] is read while config[field] is undefined
TypeError(field) == [kind |-> "TypeError", field |-> field]

CatNormalizeStack_required == <<"s3BucketName", "dynamoTableName", "lambda", "schedule">>

CatEtlStack_required == <<"dataBucketName", "cleanPrefix", "curatedPrefix", "athenaResultsPrefix">>

CatProdTokensStack_required ==
    <<"oldDynamoTableName", "newDynamoTableName", "outputBucket", "athenaDatabase">>

PipelineStack_required == <<"environment", "pipelineName", "artifactBucketName", "github">>

\* for (const field of required) if (!config[field]) throw ...
RECURSIVE validateConfig(_, _)
validateConfig(required, config) ==
    IF required = <<>> THEN NoError
    ELSE IF Falsy(config[Head(required)]) THEN MissingRequired(Head(required))
    ELSE validateConfig(Tail(required), config)

\* validateConfig of PipelineStack: the required list, then the connection ARN
PipelineStack_validateConfig(config) ==
    LET missing == validateConfig(PipelineStack_required, config)
    IN IF missing # NoError THEN missing
       ELSE IF config["github"] = "noArn" THEN InvalidConnectionArn
       ELSE NoError

\* a statement of a constructor body: the object fields of config whose
\* members it reads, the resources it adds to the stack, and the field whose
\* flag it is conditional on ("" when it is unconditional)
Statement(reads, creates, enabledBy) ==
    [reads |-> reads, creates |-> creates, enabledBy |-> enabledBy]

Unconditional == ""

\* the body of CatNormalizeStack with the schedule created whatever the flag
CatNormalizeStack_body_AlwaysScheduled ==
    << Statement({}, {"NormalizeReportsBucket"}, Unconditional),
       Statement({}, {"ETLLambdaRole"}, Unconditional),
       Statement({"lambda"}, {}, Unconditional),
       Statement({"lambda", "environmentVariables"}, {"NormalizeLambda"}, Unconditional),
       Statement({"schedule"}, {"DailyETLSchedule"}, Unconditional),
       Statement({"lambda", "schedule"}, {"Outputs"}, Unconditional) >>

\* the body of the constructor of CatNormalizeStack after validateConfig
CatNormalizeStack_body ==
    << Statement({}, {"NormalizeReportsBucket"}, Unconditional),
       Statement({}, {"ETLLambdaRole"}, Unconditional),
       Statement({"lambda"}, {}, Unconditional),
       Statement({"lambda", "environmentVariables"}, {"NormalizeLambda"}, Unconditional),
       Statement({"schedule"}, {"DailyETLSchedule"}, "schedule"),
       Statement({"lambda", "schedule"}, {"Outputs"}, Unconditional) >>

\* the body of the constructor of CatEtlStack after validateConfig
CatEtlStack_body ==
    << Statement({"glue"}, {"TransformJob"}, Unconditional),
       Statement({"catalog"}, {"Catalog"}, Unconditional),
       Statement({}, {"Athena"}, Unconditional),
       Statement({}, {"Orchestrator"}, Unconditional),
       Statement({"catalog"}, {"Outputs"}, Unconditional) >>

\* the body of the constructor of CatProdTokensStack after validateConfig
CatProdTokensStack_body ==
    << Statement({}, {"PythonDependenciesLayer"}, Unconditional),
       Statement({}, {"ArchivalLambdaRole"}, Unconditional),
       Statement({"dateFilter"}, {"ArchivalLambda"}, Unconditional),
       Statement({}, {"ConsolidatedLambdaRole"}, Unconditional),
       Statement({"dateFilter"}, {"ConsolidatedLambda"}, Unconditional),
       Statement({"schedule"}, {"DailyTokensSchedule"}, "schedule"),
       Statement({"schedule"}, {"Outputs"}, Unconditional) >>

\* the body of the constructor of PipelineStack after validateConfig
PipelineStack_body ==
    << Statement({}, {"CatNormalizeArtifactBucket"}, Unconditional),
       Statement({}, {"CatNormalizeCDKDeployRole"}, Unconditional),
       Statement({}, {"NormalizeDeployProject"}, Unconditional),
       Statement({}, {"ETLDeployProject"}, Unconditional),
       Statement({"github"}, {"Pipeline", "SynthTestProject"}, Unconditional),
       Statement({"github"}, {"Outputs"}, Unconditional) >>

\* the constructor has not run
NotConstructed == [ran |-> FALSE, error |-> NoError, resources |-> {}]

\* the constructor returned: the stack holds the resources
Constructed(resources) == [ran |-> TRUE, error |-> NoError, resources |-> resources]

\* the constructor threw: the stack holds the resources defined before
Thrown(error, resources) == [ran |-> TRUE, error |-> error, resources |-> resources]

\* the statements of a body in order; reading a member of an undefined
\* field throws a TypeError and ends the constructor
RECURSIVE Execute(_, _, _)
Execute(statements, config, resources) ==
    IF statements = <<>> THEN Constructed(resources)
    ELSE LET statement == Head(statements)
             undefinedReads == {f \in statement.reads : config[f] = "undefined"}
         IN IF undefinedReads # {}
               THEN Thrown(TypeError(CHOOSE f \in undefinedReads : TRUE), resources)
            ELSE IF statement.enabledBy # Unconditional
                    /\ config[statement.enabledBy] # "value"
               THEN Execute(Tail(statements), config, resources)
            ELSE Execute(Tail(statements), config, resources \cup statement.creates)

\* a constructor that defines its resources and validates afterwards
StackConstructor_ValidateLast(validation, body, config) ==
    LET built == Execute(body, config, {})
    IN IF built.error # NoError THEN built
       ELSE IF validation # NoError THEN Thrown(validation, built.resources)
       ELSE built

\* constructor(scope, id, config, props): super(), this.validateConfig(config),
\* then the body
StackConstructor(validation, body, config) ==
    IF validation # NoError THEN Thrown(validation, {})
    ELSE Execute(body, config, {})

CatNormalizeStack(config) ==
    StackConstructor(validateConfig(CatNormalizeStack_required, config),
                     CatNormalizeStack_body, config)

CatEtlStack(config) ==
    StackConstructor(validateConfig(CatEtlStack_required, config), CatEtlStack_body, config)

CatProdTokensStack(config) ==
    StackConstructor(validateConfig(CatProdTokensStack_required, config),
                     CatProdTokensStack_body, config)

PipelineStack(config) ==
    StackConstructor(PipelineStack_validateConfig(config), PipelineStack_body, config)

\* configuration objects of each interface
NormalizeConfigs ==
    [s3BucketName : FieldKinds, dynamoTableName : FieldKinds, lambda : ObjectKinds,
     schedule : ScheduleKinds, environmentVariables : ObjectKinds]

EtlConfigs ==
    [dataBucketName : FieldKinds, cleanPrefix : FieldKinds, curatedPrefix : FieldKinds,
     athenaResultsPrefix : FieldKinds, glue : ObjectKinds, catalog : ObjectKinds]

TokensConfigs ==
    [oldDynamoTableName : FieldKinds, newDynamoTableName : FieldKinds,
     outputBucket : FieldKinds, athenaDatabase : FieldKinds, outputPrefix : FieldKinds,
     dateFilter : DateFilterKinds, schedule : ScheduleKinds]

PipelineConfigs ==
    [environment : FieldKinds, pipelineName : FieldKinds, artifactBucketName : FieldKinds,
     github : GithubKinds]

\* a shipped configuration as the constructor of CatNormalizeStack reads it
ShippedNormalize(config) ==
    [s3BucketName |-> "value", dynamoTableName |-> "value", lambda |-> "value",
     schedule |-> IF config.schedule.enabled THEN "value" ELSE "disabled",
     environmentVariables |-> "value"]

\* a shipped configuration as the constructor of CatProdTokensStack reads it
ShippedTokens(config) ==
    [oldDynamoTableName |-> "value", newDynamoTableName |-> "value",
     outputBucket |-> "value", athenaDatabase |-> "value", outputPrefix |-> "value",
     dateFilter |-> "value",
     schedule |-> IF config.schedule.enabled THEN "value" ELSE "disabled"]

\* a configuration object on its way to the constructor of a stack class
ConfigFor(stack, config) == [stack |-> stack, config |-> config]

StackInputs ==
    {ConfigFor("CatNormalizeStack", c) : c \in NormalizeConfigs}
    \cup {ConfigFor("CatEtlStack", c) : c \in EtlConfigs}
    \cup {ConfigFor("CatProdTokensStack", c) : c \in TokensConfigs}
    \cup {ConfigFor("PipelineStack", c) : c \in PipelineConfigs}

NoConfig == ConfigFor("", [environment |-> "undefined"])

\* new CatNormalizeStack(app, id, config, props)
NewCatNormalizeStack ==
    /\ stackConfig.stack = "CatNormalizeStack"
    /\ ~stackResult.ran
    /\ stackResult' = CatNormalizeStack(stackConfig.config)
    /\ UNCHANGED <<stackConfig, context, envVar, appRuns>>
    /\ UNCHANGED <<orchVars, tokVars, heurVars, priceVars, opsVars>>

\* new CatEtlStack(app, id, config, props)
NewCatEtlStack ==
    /\ stackConfig.stack = "CatEtlStack"
    /\ ~stackResult.ran
    /\ stackResult' = CatEtlStack(stackConfig.config)
    /\ UNCHANGED <<stackConfig, context, envVar, appRuns>>
    /\ UNCHANGED <<orchVars, tokVars, heurVars, priceVars, opsVars>>

\* new CatProdTokensStack(app, id, config, props)
NewCatProdTokensStack ==
    /\ stackConfig.stack = "CatProdTokensStack"
    /\ ~stackResult.ran
    /\ stackResult' = CatProdTokensStack(stackConfig.config)
    /\ UNCHANGED <<stackConfig, context, envVar, appRuns>>
    /\ UNCHANGED <<orchVars, tokVars, heurVars, priceVars, opsVars>>

\* new PipelineStack(app, id, config, props)
NewPipelineStack ==
    /\ stackConfig.stack = "PipelineStack"
    /\ ~stackResult.ran
    /\ stackResult' = PipelineStack(stackConfig.config)
    /\ UNCHANGED <<stackConfig, context, envVar, appRuns>>
    /\ UNCHANGED <<orchVars, tokVars, heurVars, priceVars, opsVars>>

\* ------------------------------------------------------------------------
\* CDK apps: selection of the environment
\* ------------------------------------------------------------------------

\* a context value or an environment variable: not set, or a string
Unset == [set |-> FALSE, s |-> ""]

Str(s) == [set |-> TRUE, s |-> s]

Settings == {Unset, Str(""), Str("test"), Str("prod"), Str("dev"), Str("PROD")}

\* the truthiness of a || b: undefined and '' are falsy
Truthy(value) == value.set /\ value.s # ""

\* the environment variable taking precedence over the context
resolveEnvironment_VariableFirst(contextValue, variable) ==
    IF Truthy(variable) THEN variable.s
    ELSE IF Truthy(contextValue) THEN contextValue.s
    ELSE "test"

\* app.node.tryGetContext('environment') || process.env.ENVIRONMENT || 'test'
resolveEnvironment(contextValue, variable) ==
    IF Truthy(contextValue) THEN contextValue.s
    ELSE IF Truthy(variable) THEN variable.s
    ELSE "test"

AppStack(stack, environment, config) ==
    [stack |-> stack, environment |-> environment, config |-> config]

NotStarted == [ran |-> FALSE, environment |-> "", thrown |-> FALSE, stacks |-> {}]

UnknownEnvironment(environment) ==
    [ran |-> TRUE, environment |-> environment, thrown |-> TRUE, stacks |-> {}]

Synthesized(environment, stacks) ==
    [ran |-> TRUE, environment |-> environment, thrown |-> FALSE, stacks |-> stacks]

\* bin/cat-normalize.ts
cat_normalize(contextValue, variable) ==
    LET environment == resolveEnvironment(contextValue, variable)
    IN IF environment # "test" /\ environment # "prod"
          THEN UnknownEnvironment(environment)
       ELSE Synthesized(environment,
               {AppStack("CatNormalizeStack", environment,
                         IF environment = "prod" THEN "prodNormalizeConfig"
                                                 ELSE "testNormalizeConfig"),
                AppStack("CatEtlStack", environment,
                         IF environment = "prod" THEN "prodEtlConfig" ELSE "testEtlConfig")})

\* the app of the CI/CD pipeline
pipeline_app(contextValue, variable) ==
    LET environment == resolveEnvironment(contextValue, variable)
    IN IF environment # "test" /\ environment # "prod"
          THEN UnknownEnvironment(environment)
       ELSE Synthesized(environment,
               {AppStack("PipelineStack", environment,
                         IF environment = "prod" THEN "prodPipelineConfig"
                                                 ELSE "testPipelineConfig")})

Apps == {"cat-normalize", "pipeline"}

CdkIdle ==
    /\ stackConfig = NoConfig
    /\ stackResult = NotConstructed
    /\ context = Unset
    /\ envVar = Unset
    /\ appRuns = [app \in Apps |-> NotStarted]

\* cdk runs bin/cat-normalize.ts
RunCatNormalize ==
    /\ ~appRuns["cat-normalize"].ran
    /\ appRuns' = [appRuns EXCEPT !["cat-normalize"] = cat_normalize(context, envVar)]
    /\ UNCHANGED <<stackConfig, stackResult, context, envVar>>
    /\ UNCHANGED <<orchVars, tokVars, heurVars, priceVars, opsVars>>

\* cdk runs the app of the CI/CD pipeline
RunPipelineApp ==
    /\ ~appRuns["pipeline"].ran
    /\ appRuns' = [appRuns EXCEPT !["pipeline"] = pipeline_app(context, envVar)]
    /\ UNCHANGED <<stackConfig, stackResult, context, envVar>>
    /\ UNCHANGED <<orchVars, tokVars, heurVars, priceVars, opsVars>>

\* ------------------------------------------------------------------------
\* IAM roles of the stages (S3 write permissions)
\* ------------------------------------------------------------------------
RoleStages == {"extract", "transform", "archival", "consolidated"}

\* a resource of a policy statement: the objects of a bucket whose key starts
\* with a prefix; bucketArn/* is the empty prefix
ObjectsOf(bucket, prefix) == [bucket |-> bucket, prefix |-> prefix]

\* ETLLambdaRole, inline policy S3Access: s3:PutObject on bucketArn/*
ETLLambdaRole_S3Access(environment) ==
    {ObjectsOf(NormalizeConfig(environment).s3BucketName, <<>>)}

\* GlueEtl2Role: grantReadWrite(outputPrefix*), then the explicit statement
\* with s3:PutObject on bucketArn/*, inputPrefix* and outputPrefix*
GlueEtl2Role_PutObject(environment) ==
    {ObjectsOf(EtlConfig(environment).dataBucketName, EtlConfig(environment).curatedPrefix)}
    \cup {ObjectsOf(EtlConfig(environment).dataBucketName, <<>>),
          ObjectsOf(EtlConfig(environment).dataBucketName, EtlConfig(environment).cleanPrefix),
          ObjectsOf(EtlConfig(environment).dataBucketName, EtlConfig(environment).curatedPrefix)}

\* ArchivalLambdaRole, inline policy S3WriteAccess: s3:PutObject on historicalPrefix*
ArchivalLambdaRole_S3WriteAccess(environment) ==
    {ObjectsOf(TokensConfig(environment).outputBucket,
               TokensConfig(environment).historicalPrefix)}

\* ConsolidatedLambdaRole, inline policy S3FullAccess: s3:PutObject on bucketArn/*
ConsolidatedLambdaRole_S3FullAccess(environment) ==
    {ObjectsOf(TokensConfig(environment).outputBucket, <<>>)}

PutObjectResources(stage, environment) ==
    CASE stage = "extract" -> ETLLambdaRole_S3Access(environment)
      [] stage = "transform" -> GlueEtl2Role_PutObject(environment)
      [] stage = "archival" -> ArchivalLambdaRole_S3WriteAccess(environment)
      [] stage = "consolidated" -> ConsolidatedLambdaRole_S3FullAccess(environment)

\* IAM: a request is allowed when a statement of the role's policies allows
\* the action on the resource (no statement of these roles denies)
Allowed(stage, environment, bucket, key) ==
    \E resource \in PutObjectResources(stage, environment) :
        /\ resource.bucket = bucket
        /\ StartsWith(key, resource.prefix)

\* the prefix each stage is to write under
DesignatedPrefix(stage, environment) ==
    CASE stage = "extract" -> NormalizeConfig(environment).s3Prefix
      [] stage = "transform" -> EtlConfig(environment).curatedPrefix
      [] stage = "archival" -> TokensConfig(environment).historicalPrefix
      [] stage = "consolidated" -> TokensConfig(environment).outputPrefix

\* the keys requested in the model: one under every stage's location
PutKeys ==
    {ParquetKey} \cup {StageKey(stage, environment) :
                          stage \in Stages, environment \in Environments}

Buckets == {EtlConfig(environment).dataBucketName : environment \in Environments}

IamIdle == puts = {}

\* the code running under a stage's role requests PutObject; S3 writes the
\* object when the role's policy allows the request
RolePutObject(stage, environment, bucket, key) ==
    /\ Cardinality(puts) < MaxPuts
    /\ Allowed(stage, environment, bucket, key)
    /\ puts' = puts \cup {[stage |-> stage, environment |-> environment,
                           bucket |-> bucket, key |-> key]}
    /\ UNCHANGED <<pipelineConfig, executions>>
    /\ UNCHANGED <<orchVars, tokVars, heurVars, priceVars, cdkVars>>

\* ------------------------------------------------------------------------
\* CI/CD pipeline (pipeline/lib/pipeline-stack.ts)
\* ------------------------------------------------------------------------
testPipelineConfig == [environment |-> "test", requireManualApproval |-> FALSE]

prodPipelineConfig == [environment |-> "prod", requireManualApproval |-> TRUE]

ShippedPipelineConfigs == {testPipelineConfig, prodPipelineConfig}

PipelineAction(actionName, runOrder) == [actionName |-> actionName, runOrder |-> runOrder]

addSourceStage ==
    [stageName |-> "Source", actions |-> {PipelineAction("GitHub_Source", 1)}]

addBuildAndTestStage ==
    [stageName |-> "BuildAndTest", actions |-> {PipelineAction("CDK_Synth_Test", 1)}]

addManualApprovalStage ==
    [stageName |-> "ManualApproval", actions |-> {PipelineAction("Approve_Deployment", 1)}]

\* the Deploy stage with both actions in the same run order
addDeployStage_SameRunOrder ==
    [stageName |-> "Deploy",
     actions |-> {PipelineAction("Deploy_Normalize_Stack", 1),
                  PipelineAction("Deploy_ETL_Stack", 1)}]

addDeployStage ==
    [stageName |-> "Deploy",
     actions |-> {PipelineAction("Deploy_Normalize_Stack", 1),
                  PipelineAction("Deploy_ETL_Stack", 2)}]

\* the pipeline with the approval stage added after the Deploy stage
PipelineStages_ApprovalLast(config) ==
    <<addSourceStage, addBuildAndTestStage, addDeployStage>>
    \o (IF config.requireManualApproval THEN <<addManualApprovalStage>> ELSE <<>>)

\* PipelineStack constructor: the stages in the order they are added
PipelineStages(config) ==
    <<addSourceStage, addBuildAndTestStage>>
    \o (IF config.requireManualApproval THEN <<addManualApprovalStage>> ELSE <<>>)
    \o <<addDeployStage>>

ActionNames ==
    {"GitHub_Source", "CDK_Synth_Test", "Approve_Deployment",
     "Deploy_Normalize_Stack", "Deploy_ETL_Stack"}

ExecutionIds == 1..MaxExecutions

\* an execution that has not been started
NoExecution == [status |-> "None", actions |-> [a \in ActionNames |-> "NotStarted"]]

\* the position in the pipeline of the stage that holds an action, 0 if none does
StageOf(config, actionName) ==
    LET stages == PipelineStages(config)
        holding == {i \in DOMAIN stages :
                       \E a \in stages[i].actions : a.actionName = actionName}
    IN IF holding = {} THEN 0 ELSE CHOOSE i \in holding : TRUE

ActionsOf(config) ==
    {a.actionName : a \in UNION {PipelineStages(config)[i].actions :
                                    i \in DOMAIN PipelineStages(config)}}

RunOrderOf(config, actionName) ==
    LET stage == PipelineStages(config)[StageOf(config, actionName)]
    IN (CHOOSE a \in stage.actions : a.actionName = actionName).runOrder

\* CodePipeline: the actions that must have succeeded before an action
\* starts, those of the earlier stages and those of its stage with a lower
\* run order
Before(config, actionName) ==
    {b \in ActionsOf(config) :
        \/ StageOf(config, b) < StageOf(config, actionName)
        \/ /\ StageOf(config, b) = StageOf(config, actionName)
           /\ RunOrderOf(config, b) < RunOrderOf(config, actionName)}

PipeIdle ==
    /\ pipelineConfig = testPipelineConfig
    /\ executions = [x \in ExecutionIds |-> NoExecution]

\* a push to the branch starts an execution
StartExecution(x) ==
    /\ executions[x].status = "None"
    /\ executions' = [executions EXCEPT ![x].status = "InProgress"]
    /\ UNCHANGED <<pipelineConfig, puts>>
    /\ UNCHANGED <<orchVars, tokVars, heurVars, priceVars, cdkVars>>

\* CodePipeline starts an action of an execution in progress
StartAction(x, actionName) ==
    /\ executions[x].status = "InProgress"
    /\ actionName \in ActionsOf(pipelineConfig)
    /\ executions[x].actions[actionName] = "NotStarted"
    /\ \A b \in Before(pipelineConfig, actionName) :
          executions[x].actions[b] = "Succeeded"
    /\ executions' = [executions EXCEPT ![x].actions[actionName] = "InProgress"]
    /\ UNCHANGED <<pipelineConfig, puts>>
    /\ UNCHANGED <<orchVars, tokVars, heurVars, priceVars, cdkVars>>

\* an action succeeds (the approval is approved); the execution succeeds
\* with its last action
ActionSucceeds(x, actionName) ==
    /\ executions[x].actions[actionName] = "InProgress"
    /\ LET actions == [executions[x].actions EXCEPT ![actionName] = "Succeeded"]
       IN executions' = [executions EXCEPT
            ![x] = [status |-> IF /\ executions[x].status = "InProgress"
                                  /\ \A a \in ActionsOf(pipelineConfig) :
                                        actions[a] = "Succeeded"
                                  THEN "Succeeded" ELSE executions[x].status,
                    actions |-> actions]]
    /\ UNCHANGED <<pipelineConfig, puts>>
    /\ UNCHANGED <<orchVars, tokVars, heurVars, priceVars, cdkVars>>

\* an action fails (the approval is rejected or times out): the execution
\* fails and starts no further action
ActionFails(x, actionName) ==
    /\ executions[x].actions[actionName] = "InProgress"
    /\ executions' = [executions EXCEPT ![x] =
            [status |-> "Failed",
             actions |-> [executions[x].actions EXCEPT ![actionName] = "Failed"]]]
    /\ UNCHANGED <<pipelineConfig, puts>>
    /\ UNCHANGED <<orchVars, tokVars, heurVars, priceVars, cdkVars>>

OpsIdle == PipeIdle /\ IamIdle

\* ------------------------------------------------------------------------
\* Specifications
\* ------------------------------------------------------------------------

\* the event-driven topology of both environments
Init == InitOrch /\ TokIdle /\ HeurIdle /\ PriceIdle /\ CdkIdle /\ OpsIdle

Spec == Init /\ [][NextOrch]_vars

\* the consolidation as a function of its inputs: any archival object (or
\* none), any table content, either tie order; the job runs, then the
\* consolidation is applied again to its output
InitConsol ==
    /\ InitOrch
    /\ OpsIdle
    /\ tieOrder \in TieOrders
    /\ archivalObj \in ArchivalObjects(Items, MaxArch)
    /\ newTable \in SeqsUpTo(Items, MaxNew)
    /\ consolidatedObj = NoObject
    /\ reObj = NoObject
    /\ runStatus = "none"
    /\ runLog = <<>>
    /\ HeurIdle
    /\ PriceIdle
    /\ CdkIdle

NextConsol ==
    \/ ConsolidatedRun(1)
    \/ Reconsolidate

SpecConsol == InitConsol /\ [][NextConsol]_vars

\* the daily job run repeatedly over the archival object (or none) while
\* the content of the current table changes between runs
InitDaily ==
    /\ InitOrch
    /\ OpsIdle
    /\ tieOrder \in TieOrders
    /\ archivalObj \in ArchivalObjects(DailyItems, MaxDailyRows)
    /\ newTable = <<>>
    /\ consolidatedObj = NoObject
    /\ reObj = NoObject
    /\ runStatus = "none"
    /\ runLog = <<>>
    /\ HeurIdle
    /\ PriceIdle
    /\ CdkIdle

NextDaily ==
    \/ \E items \in SeqsUpTo(DailyItems, MaxDailyRows) : TableWrite(items)
    \/ ConsolidatedRun(MaxDailyRuns)

SpecDaily == InitDaily /\ [][NextDaily]_vars

\* the two token heuristics as functions of a message map
InitTokens ==
    /\ InitOrch
    /\ OpsIdle
    /\ TokIdle
    /\ message_map \in MessageMaps(MaxEntries)
    /\ legacy = NotRun
    /\ enhanced = NotRun
    /\ PriceIdle
    /\ CdkIdle

NextTokens ==
    \/ ExtractLegacy
    \/ ExtractEnhanced

SpecTokens == InitTokens /\ [][NextTokens]_vars

\* the two heuristics on text items with str bodies of every length
InitText ==
    /\ InitOrch
    /\ OpsIdle
    /\ TokIdle
    /\ message_map \in {TextMap(n1, n2) : n1 \in 0..MaxBody, n2 \in 0..MaxBody}
    /\ legacy = NotRun
    /\ enhanced = NotRun
    /\ PriceIdle
    /\ CdkIdle

SpecText == InitText /\ [][NextTokens]_vars

\* the price columns as functions of the token counts of the rows
InitPrice ==
    /\ InitOrch
    /\ OpsIdle
    /\ TokIdle
    /\ HeurIdle
    /\ usage \in UsageTables(MaxUsageRows)
    /\ priced = NotPriced
    /\ CdkIdle

NextPrice == ComputePrices

SpecPrice == InitPrice /\ [][NextPrice]_vars

\* the stages writing to the shared buckets of both environments, the
\* transform runs ending, the event bus delivering; EventBridge delivers
\* every event that is published
NextStages ==
    \/ \E stage \in Stages, environment \in Environments : StageWrite(stage, environment)
    \/ \E run \in jobRuns, state \in TerminalStates : JobRunEnds(run, state)
    \/ \E e \in bus : DeliverEvent(e)

Delivery == WF_vars(\E e \in bus : DeliverEvent(e))

SpecStages == Init /\ [][NextStages]_vars /\ Delivery

\* the code of each stage requesting PutObject under its role, on any of the
\* keys, in either bucket
InitRoles == InitOrch /\ TokIdle /\ HeurIdle /\ PriceIdle /\ CdkIdle /\ OpsIdle

NextRoles ==
    \E stage \in RoleStages, environment \in Environments, bucket \in Buckets, key \in PutKeys :
        RolePutObject(stage, environment, bucket, key)

SpecRoles == InitRoles /\ [][NextRoles]_vars

\* executions of the pipeline deployed with either shipped configuration
InitPipeline ==
    /\ InitOrch /\ TokIdle /\ HeurIdle /\ PriceIdle /\ CdkIdle /\ IamIdle
    /\ pipelineConfig \in ShippedPipelineConfigs
    /\ executions = [x \in ExecutionIds |-> NoExecution]

NextPipeline ==
    \/ \E x \in ExecutionIds : StartExecution(x)
    \/ \E x \in ExecutionIds, actionName \in ActionNames : StartAction(x, actionName)
    \/ \E x \in ExecutionIds, actionName \in ActionNames : ActionSucceeds(x, actionName)
    \/ \E x \in ExecutionIds, actionName \in ActionNames : ActionFails(x, actionName)

SpecPipeline == InitPipeline /\ [][NextPipeline]_vars

\* the stack constructors as functions of the configuration object
InitStacks ==
    /\ InitOrch
    /\ OpsIdle
    /\ TokIdle
    /\ HeurIdle
    /\ PriceIdle
    /\ stackConfig \in StackInputs
    /\ stackResult = NotConstructed
    /\ context = Unset
    /\ envVar = Unset
    /\ appRuns = [app \in Apps |-> NotStarted]

NextStacks ==
    \/ NewCatNormalizeStack
    \/ NewCatEtlStack
    \/ NewCatProdTokensStack
    \/ NewPipelineStack

SpecStacks == InitStacks /\ [][NextStacks]_vars

\* the app entrypoints as functions of the context and of the environment
InitApps ==
    /\ InitOrch
    /\ OpsIdle
    /\ TokIdle
    /\ HeurIdle
    /\ PriceIdle
    /\ stackConfig = NoConfig
    /\ stackResult = NotConstructed
    /\ context \in Settings
    /\ envVar \in Settings
    /\ appRuns = [app \in Apps |-> NotStarted]

NextApps ==
    \/ RunCatNormalize
    \/ RunPipelineApp

SpecApps == InitApps /\ [][NextApps]_vars



\* ------------------------------------------------------------------------
\* Vocabulary of the topology claims
\* ------------------------------------------------------------------------
FailureStates == TerminalStates \ {"SUCCEEDED"}

\* e announces an object created under cleanPrefix in the environment's data bucket
CreatedUnderCleanPrefix(environment, e) ==
    /\ e.source = "aws.s3"
    /\ e.detailType = "Object Created"
    /\ e.bucket = EtlConfig(environment).dataBucketName
    /\ \E n \in 0..Len(e.key) :
          /\ SubSeq(e.key, 1, n) = EtlConfig(environment).cleanPrefix

\* e announces that a run of the environment's transform job ended in `state`
TransformEnded(environment, e, state) ==
    /\ e.source = "aws.glue"
    /\ e.detailType = "Glue Job State Change"
    /\ e.jobName = jobName(environment)
    /\ e.state = state

Published == bus \cup delivered

StartJobCalls(environment) ==
    {c \in apiCalls : c.action = "startJobRun" /\ c.name = jobName(environment)}

StartCrawlerCalls(environment) ==
    {c \in apiCalls : c.action = "startCrawler" /\ c.name = dynamicCrawlerName(environment)}

RunsOf(runs, environment) == {r \in runs : r.jobName = jobName(environment)}

\* C1: a startJobRun request for an environment's transform job is only ever
\* made for an "Object Created" event of that environment's data bucket whose
\* key starts with cleanPrefix; an event of another prefix, another bucket or
\* another detail type starts no transform job.
C1_TransformOnlyOnCleanPrefix ==
    /\ \A c \in apiCalls :
          c.action = "startJobRun" =>
             \E environment \in Environments :
                /\ c.name = jobName(environment)
                /\ CreatedUnderCleanPrefix(environment, c.cause)
    /\ \A e \in delivered, environment \in Environments :
          ~CreatedUnderCleanPrefix(environment, e) =>
             /\ {c \in StartJobCalls(environment) : c.cause = e} = {}
             /\ {r \in RunsOf(jobRuns, environment) : r.cause = e.id} = {}

\* C1 witness: an object created under a sibling prefix of the test bucket
\* and an object created under cleanPrefix of the prod bucket have been
\* evaluated; the first started nothing, the second started the prod job, and
\* the test job was never requested.
C1_Witness ==
    /\ \E e \in delivered :
          /\ e.detailType = "Object Created"
          /\ e.bucket = testEtlConfig.dataBucketName
          /\ e.key = SiblingKey
    /\ \E e \in delivered :
          /\ CreatedUnderCleanPrefix("prod", e)
          /\ \E c \in StartJobCalls("prod") : c.cause = e
    /\ StartJobCalls("test") = {}

\* C2: every evaluated "Object Created" event under cleanPrefix of an
\* environment's data bucket has caused exactly one startJobRun request, for
\* that environment's transform job and for no other job; an event not yet
\* evaluated has caused none.
C2_ArmedExactlyOnce ==
    /\ \A e \in delivered, environment \in Environments :
          CreatedUnderCleanPrefix(environment, e) =>
             /\ Cardinality({c \in StartJobCalls(environment) : c.cause = e}) = 1
             /\ Cardinality({c \in apiCalls : c.cause = e /\ c.action = "startJobRun"}) = 1
             /\ Cardinality({r \in RunsOf(jobRuns, environment) : r.cause = e.id}) = 1
    /\ \A e \in bus : {c \in apiCalls : c.cause = e} = {}

\* C2 witness: two objects under cleanPrefix, one per environment, have each
\* been evaluated and each environment's job has been requested.
C2_Witness ==
    \A environment \in Environments :
       /\ \E e \in delivered : CreatedUnderCleanPrefix(environment, e)
       /\ StartJobCalls(environment) # {}

\* C3: every startCrawler request is caused by a "Glue Job State Change" event
\* of the same environment's transform job with state SUCCEEDED; the crawler
\* runs, and the catalog changes, only through such requests, so a run that
\* ends in another state, or another job's success, leaves the catalog as it was.
C3_CrawlerOnlyOnTransformSuccess ==
    /\ \A c \in apiCalls :
          c.action = "startCrawler" =>
             \E environment \in Environments :
                /\ c.name = dynamicCrawlerName(environment)
                /\ TransformEnded(environment, c.cause, "SUCCEEDED")
    /\ \A environment \in Environments :
          /\ crawls[environment] = Cardinality(StartCrawlerCalls(environment))
          /\ crawls[environment] <=
                Cardinality({e \in delivered : TransformEnded(environment, e, "SUCCEEDED")})
          /\ catalog[environment] # 0 => crawls[environment] > 0

\* C3 witness: the event of a failed transform run has been evaluated, and so
\* has the event of a successful one, which started the crawler once.
C3_Witness ==
    \E environment \in Environments :
       /\ \E e \in delivered, state \in FailureStates : TransformEnded(environment, e, state)
       /\ \E e \in delivered : TransformEnded(environment, e, "SUCCEEDED")
       /\ crawls[environment] = 1
       /\ catalog[environment] = 1

\* C4: a transform run begins only in a step that is a manual start or the
\* evaluation of a not yet evaluated "Object Created" event under cleanPrefix;
\* in particular the evaluation of a failure event starts no run.
C4_NoAutomaticRetry ==
    [][ \A environment \in Environments :
           Cardinality(RunsOf(jobRuns', environment)) > Cardinality(RunsOf(jobRuns, environment))
           =>
           \/ /\ Cardinality(jobRuns' \ jobRuns) = 1
              /\ \A r \in jobRuns' \ jobRuns : r.startedBy = "manual"
              /\ bus' = bus
           \/ \E e \in bus \ bus' :
                 /\ e \notin delivered
                 /\ CreatedUnderCleanPrefix(environment, e)
      ]_vars

\* C4 witness: a transform run has failed, its failure event has been
\* evaluated, and a later object under cleanPrefix has started another run.
C4_Witness ==
    \E environment \in Environments :
       \E failed, later \in RunsOf(jobRuns, environment) :
          /\ failed.state \in FailureStates
          /\ later.startedBy = "rule"
          /\ \E e \in delivered, state \in FailureStates :
                /\ TransformEnded(environment, e, state)
                /\ e.id < later.cause

\* C5: the stages are causally ordered. A transform run started by the
\* pipeline implies that an object has been written under cleanPrefix of the
\* environment's data bucket before; a crawler start implies that a run of the
\* environment's transform job has reached SUCCEEDED.
C5_CausalOrder ==
    \A environment \in Environments :
       /\ (\E r \in RunsOf(jobRuns, environment) : r.startedBy = "rule")
             => \E e \in Published :
                   /\ CreatedUnderCleanPrefix(environment, e)
                   /\ \E r \in RunsOf(jobRuns, environment) : r.cause = e.id
       /\ \A r \in RunsOf(jobRuns, environment) :
             r.startedBy = "rule" =>
                \E e \in delivered :
                   e.id = r.cause /\ CreatedUnderCleanPrefix(environment, e)
       /\ (crawls[environment] > 0 \/ catalog[environment] > 0)
             => \E r \in RunsOf(jobRuns, environment) : r.state = "SUCCEEDED"

\* C5 witness: the whole chain has run in one environment: extract output
\* written, transform started by the rule and succeeded, crawler started.
C5_Witness ==
    \E environment \in Environments :
       /\ \E r \in RunsOf(jobRuns, environment) :
             r.startedBy = "rule" /\ r.state = "SUCCEEDED"
       /\ crawls[environment] = 1

\* ------------------------------------------------------------------------
\* Vocabulary of the consolidation claims
\* ------------------------------------------------------------------------
Range(f) == {f[i] : i \in DOMAIN f}

KeysOf(df) == {RowKey(df[i]) : i \in DOMAIN df}

UniqueKeys(df) == \A i, j \in DOMAIN df : i # j => RowKey(df[i]) # RowKey(df[j])

SortedDescending(df) ==
    \A i \in DOMAIN df : i < Len(df) => df[i].create_date >= df[i + 1].create_date

\* the rows of the archival object (none when the object is missing)
ArchivalRows ==
    [i \in DOMAIN archivalObj.lines |->
        [create_date |-> archivalObj.lines[i][1], input_token |-> archivalObj.lines[i][2],
         pk |-> archivalObj.lines[i][3], sk |-> archivalObj.lines[i][4],
         source |-> archivalObj.lines[i][5]]]

\* the newly computed rows
NewRows ==
    [i \in DOMAIN newTable |->
        [create_date |-> newTable[i].create_date, input_token |-> newTable[i].input_token,
         pk |-> newTable[i].pk, sk |-> newTable[i].sk, source |-> "new_table"]]

ArchivalThenNew == ArchivalRows \o NewRows

FirstWithKey(df, key) == df[CHOOSE i \in DOMAIN df :
                              /\ RowKey(df[i]) = key
                              /\ \A j \in 1..(i - 1) : RowKey(df[j]) # key]

OutputRows == read_csv(consolidatedObj)

ReOutputRows == read_csv(reObj)

\* C6: after a run, when an archival row and a new row share (pk, sk), the
\* output row of that key is an archival row (source 'old_table') and the new
\* row is not in the output; in general every output row is the first row of
\* its key in the archival-then-new concatenation.
C6_ArchivalWinsTie ==
    runStatus = "ok" =>
       /\ \A i \in DOMAIN ArchivalRows, j \in DOMAIN NewRows :
             RowKey(ArchivalRows[i]) = RowKey(NewRows[j]) =>
                /\ \E k \in DOMAIN OutputRows :
                      /\ RowKey(OutputRows[k]) = RowKey(ArchivalRows[i])
                      /\ OutputRows[k].source = "old_table"
                      /\ OutputRows[k] \in Range(ArchivalRows)
                /\ NewRows[j] \notin Range(OutputRows)
       /\ \A k \in DOMAIN OutputRows :
             OutputRows[k] = FirstWithKey(ArchivalThenNew, RowKey(OutputRows[k]))

\* C6 witness: the job has run on an archival row and a new row of the same
\* key and different payload, next to a new row of another key.
C6_Witness ==
    /\ runStatus = "ok"
    /\ \E i \in DOMAIN ArchivalRows, j \in DOMAIN NewRows :
          /\ RowKey(ArchivalRows[i]) = RowKey(NewRows[j])
          /\ ArchivalRows[i].input_token # NewRows[j].input_token
    /\ Len(OutputRows) = 2

\* C7: after a run the consolidated output has at most one row per (pk, sk).
C7_OneRowPerKey ==
    runStatus = "ok" => UniqueKeys(OutputRows)

\* C7 witness: the job has run on new rows that repeat a key with different
\* payloads, the key being also in the archival object.
C7_Witness ==
    /\ runStatus = "ok"
    /\ \E i, j \in DOMAIN NewRows :
          /\ i # j
          /\ RowKey(NewRows[i]) = RowKey(NewRows[j])
          /\ NewRows[i] # NewRows[j]
          /\ RowKey(NewRows[i]) \in KeysOf(ArchivalRows)

\* C8: when the archival object does not exist, a run does not fail and its
\* output consists of the newly computed rows only: every output row is a new
\* row with source 'new_table', every new key is in the output, and new rows
\* of unique keys give as many output rows.
C8_MissingArchivalIsEmpty ==
    (~archivalObj.exists /\ runLog # <<>>) =>
       /\ runStatus = "ok"
       /\ consolidatedObj.exists
       /\ \A k \in DOMAIN OutputRows : OutputRows[k].source = "new_table"
       /\ Range(OutputRows) \subseteq Range(NewRows)
       /\ KeysOf(OutputRows) = KeysOf(NewRows)
       /\ UniqueKeys(NewRows) =>
             /\ Len(OutputRows) = Len(NewRows)
             /\ Range(OutputRows) = Range(NewRows)

\* C8 witness: the job has run without an archival object on as many new
\* rows of unique keys as the table holds.
C8_Witness ==
    /\ ~archivalObj.exists
    /\ runLog # <<>>
    /\ Len(NewRows) = MaxNew
    /\ UniqueKeys(NewRows)
    /\ Len(OutputRows) = MaxNew

Ran(result) == result # NotRun

ReturnedPair(result) == Ran(result) /\ ~result.raised

TypeOf(item) == IF item.content_type.kind = "missing" THEN "text" ELSE item.content_type.s

IsToolUse(item) == item.isDict /\ TypeOf(item) = "toolUse"

IsToolResult(item) == item.isDict /\ TypeOf(item) = "toolResult"

\* the items of the content lists of a map, entry after entry
RECURSIVE AllItems(_)
AllItems(map) ==
    IF map = <<>> THEN <<>>
    ELSE (IF Head(map).contentKind = "list" THEN Head(map).items ELSE <<>>)
         \o AllItems(Tail(map))

\* the map without its toolUse and toolResult items
WithoutTools(map) ==
    [k \in DOMAIN map |->
        [map[k] EXCEPT !.items =
            SelectSeq(@, LAMBDA item : ~IsToolUse(item) /\ ~IsToolResult(item))]]

\* characters of a list of strs, each counted as length / 4 rounded down
RECURSIVE QuarterSum(_)
QuarterSum(strs) ==
    IF strs = <<>> THEN 0 ELSE (Len(Head(strs)) \div 4) + QuarterSum(Tail(strs))

\* the serialized input of each toolUse item of a list of items
ToolUseTexts(items) ==
    LET uses == SelectSeq(items, IsToolUse)
    IN [i \in DOMAIN uses |-> json_dumps(uses[i].body.input.pairs)]

\* the elements, as strs, of the nested content lists of the toolResult items
RECURSIVE ToolResultTexts(_)
ToolResultTexts(items) ==
    IF items = <<>> THEN <<>>
    ELSE (IF IsToolResult(Head(items))
          THEN [i \in DOMAIN Head(items).body.content.elems |->
                    str(Head(items).body.content.elems[i])]
          ELSE <<>>)
         \o ToolResultTexts(Tail(items))

\* C11: when the enhanced heuristic returns, what the toolUse and toolResult
\* items of the map add to its totals, compared with the map without them,
\* is: to output_tokens the length/4 of the serialized input of every toolUse
\* item and nothing else, to input_tokens the length/4 of every element of
\* the nested content list of every toolResult item and nothing else,
\* whatever the roles of the entries that hold them.
C11_ToolSides ==
    ReturnedPair(enhanced) =>
       LET rest == extract_tokens_from_messagemap_v2(WithoutTools(message_map))
       IN /\ enhanced.output_tokens
                = rest.output_tokens + QuarterSum(ToolUseTexts(AllItems(message_map)))
          /\ enhanced.input_tokens
                = rest.input_tokens + QuarterSum(ToolResultTexts(AllItems(message_map)))

\* C11 witness: the enhanced heuristic has returned on a user entry that
\* holds a toolUse item of three tokens and a toolResult item of one token.
C11_Witness ==
    /\ ReturnedPair(enhanced)
    /\ \E k \in DOMAIN message_map :
          /\ message_map[k].role = RoleStr("user")
          /\ \E i, j \in DOMAIN message_map[k].items :
                /\ IsToolUse(message_map[k].items[i])
                /\ IsToolResult(message_map[k].items[j])
    /\ enhanced = Returned(1, 3)

RecognizedRoles == {"user", "system", "assistant", "bot"}

\* the entry has a role, a str, that is none of the recognized roles in any case
UnrecognizedRole(entry) ==
    /\ entry.role.kind = "str"
    /\ lower(entry.role.s) \notin RecognizedRoles

\* C12: for a message map in which every entry has an unrecognized role,
\* each heuristic that returns returns input_tokens = 0 and output_tokens = 0,
\* whatever content items the entries hold.
C12_UnrecognizedRolesCountZero ==
    (\A k \in DOMAIN message_map : UnrecognizedRole(message_map[k])) =>
       /\ ReturnedPair(legacy) => legacy = Returned(0, 0)
       /\ ReturnedPair(enhanced) => enhanced = Returned(0, 0)

\* the text items with a str body of a map, entry after entry
TextBodies(map) ==
    SelectSeq(AllItems(map),
              LAMBDA item : item.isDict /\ TypeOf(item) = "text" /\ item.body.kind = "str")

\* t is the length n divided by four, rounded down
IsFloorOfQuarter(t, n) == 4 * t <= n /\ n < 4 * t + 4

\* the length of the body of the only item of entry k of a map of text items
BodyLength(k) == Len(message_map[k].items[1].body.s)

\* C13: on a map with one text item under a user entry and one under an
\* assistant entry, both with str bodies, each heuristic counts for each item
\* the length of its body divided by four, rounded down (the user item on
\* input_tokens, the assistant item on output_tokens), and the item with the
\* body that is not shorter has the count that is not smaller.
C13_FloorQuarterMonotonic ==
    \A result \in {legacy, enhanced} :
       (ReturnedPair(result) /\ Len(TextBodies(message_map)) = 2) =>
          /\ IsFloorOfQuarter(result.input_tokens, BodyLength(1))
          /\ IsFloorOfQuarter(result.output_tokens, BodyLength(2))
          /\ BodyLength(1) <= BodyLength(2)
                => result.input_tokens <= result.output_tokens
          /\ BodyLength(2) <= BodyLength(1)
                => result.output_tokens <= result.input_tokens

\* C13 witness: both heuristics have returned on bodies of 7 and 8
\* characters, which count 1 and 2.
C13_Witness ==
    /\ Len(TextBodies(message_map)) = 2
    /\ BodyLength(1) = 7 /\ BodyLength(2) = 8
    /\ legacy = Returned(1, 2)
    /\ enhanced = Returned(1, 2)

KnownContentTypes == {"text", "toolUse", "toolResult"}

\* an item the heuristics cannot count: no dict, an unknown content_type, a
\* text item whose body is missing or no str, a tool item whose body is no dict
MalformedItem(item) ==
    \/ ~item.isDict
    \/ TypeOf(item) \notin KnownContentTypes
    \/ TypeOf(item) = "text" /\ item.body.kind # "str"
    \/ TypeOf(item) \in {"toolUse", "toolResult"} /\ item.body.kind # "dict"

\* an entry the heuristics cannot count: its role is missing or null
MalformedEntry(entry) == entry.role.kind \in {"missing", "none"}

\* the map without its malformed entries and items, content that is no list
\* replaced by the empty list
WellFormedPart(map) ==
    LET kept == SelectSeq(map, LAMBDA entry : ~MalformedEntry(entry))
    IN [k \in DOMAIN kept |->
           [kept[k] EXCEPT
               !.contentKind = "list",
               !.items = IF kept[k].contentKind = "list"
                         THEN SelectSeq(@, LAMBDA item : ~MalformedItem(item))
                         ELSE <<>>]]

\* C14: each heuristic that has been applied to a message map has returned a
\* pair of non-negative integers, no exception, and the pair is the one it
\* returns on the map without its malformed entries and items (each of them
\* contributes zero).
C14_Total ==
    /\ Ran(legacy) =>
          /\ ~legacy.raised
          /\ legacy.input_tokens >= 0 /\ legacy.output_tokens >= 0
          /\ legacy = extract_tokens_from_messagemap_OLD(WellFormedPart(message_map))
    /\ Ran(enhanced) =>
          /\ ~enhanced.raised
          /\ enhanced.input_tokens >= 0 /\ enhanced.output_tokens >= 0
          /\ enhanced = extract_tokens_from_messagemap_v2(WellFormedPart(message_map))

\* the content item {content_type: 'toolUse', body: {input: {"a": "bcd"}}}
ScenarioItem == Item(TRUE, ContentType("toolUse"), BodyDict(ScenarioInput, NoContent))

\* the map holds the scenario item and nothing else
ScenarioMap ==
    /\ Len(message_map) = 1
    /\ message_map[1].contentKind = "list"
    /\ message_map[1].items = <<ScenarioItem>>

\* C15 as stated: the scenario item is serialized to a string of 15
\* characters and counts 15 // 4 = 3, all on output_tokens, none on
\* input_tokens.
C15_FifteenCharacters ==
    (ScenarioMap /\ ReturnedPair(enhanced)) =>
       /\ Len(json_dumps(ScenarioItem.body.input.pairs)) = 15
       /\ enhanced = Returned(0, 15 \div 4)

\* C15 amended: the scenario item is serialized to a string of 12
\* characters, {"a": "bcd"}, and counts 12 // 4 = 3, all on output_tokens,
\* none on input_tokens.
C15_TwelveCharacters ==
    (ScenarioMap /\ ReturnedPair(enhanced)) =>
       /\ Len(json_dumps(ScenarioItem.body.input.pairs)) = 12
       /\ enhanced = Returned(0, 12 \div 4)

\* C15 witness: the enhanced heuristic has returned on the scenario item,
\* held by an assistant entry.
C15_Witness ==
    /\ ScenarioMap
    /\ message_map[1].role = RoleStr("assistant")
    /\ enhanced = Returned(0, 3)

\* C17: after a run the consolidated output is ordered by create_date
\* descending: of two consecutive output rows the earlier has a create_date
\* greater than or equal to that of the later, whichever source they are of.
C17_OrderedByDateDescending ==
    runStatus = "ok" => SortedDescending(OutputRows)

\* C17 witness: the job has run on an archival row and a later new row of
\* another key, which the concatenation holds in ascending order; the output
\* has the new row first.
C17_Witness ==
    /\ runStatus = "ok"
    /\ Len(OutputRows) = 2
    /\ OutputRows[1].source = "new_table"
    /\ OutputRows[2].source = "old_table"
    /\ OutputRows[1].create_date > OutputRows[2].create_date
    /\ ~SortedDescending(ArchivalThenNew)

\* ------------------------------------------------------------------------
\* Vocabulary of the price claims
\* ------------------------------------------------------------------------

\* the sum of one column of the priced rows
RECURSIVE SumOf(_, _)
SumOf(rows, column) ==
    IF rows = <<>> THEN 0 ELSE Head(rows)[column] + SumOf(Tail(rows), column)

\* the exact price of the rows, in thousandths of a micro-USD
RECURSIVE ExactTotal(_)
ExactTotal(rows) ==
    IF rows = <<>> THEN 0
    ELSE Amount(Head(rows).input_token, price_in)
         + Amount(Head(rows).output_token, price_out) + ExactTotal(Tail(rows))

RequiredOf(stack) ==
    CASE stack = "CatNormalizeStack" -> CatNormalizeStack_required
      [] stack = "CatEtlStack" -> CatEtlStack_required
      [] stack = "CatProdTokensStack" -> CatProdTokensStack_required
      [] stack = "PipelineStack" -> PipelineStack_required

\* the constructor threw an Error of validateConfig and the stack has no resource
Rejected == stackResult.error.kind = "Error" /\ stackResult.resources = {}

\* a field of the required list is missing or empty
RequiredFieldMissing ==
    \E i \in DOMAIN RequiredOf(stackConfig.stack) :
       stackConfig.config[RequiredOf(stackConfig.stack)[i]] \in {"undefined", "empty"}

\* C18: when the constructor of a stack has run on a configuration in which
\* a field of the stack's required list is missing or empty, it has thrown
\* the error of validateConfig and the stack has no resource: validateConfig
\* runs before any resource is constructed.
C18_ValidateBeforeResources ==
    (stackResult.ran /\ RequiredFieldMissing) => Rejected

\* C18 witness: the constructor of CatEtlStack has thrown on a configuration
\* whose last required field only is empty, every other field having a value.
C18_Witness ==
    /\ stackResult.ran
    /\ stackConfig.stack = "CatEtlStack"
    /\ stackConfig.config["athenaResultsPrefix"] = "empty"
    /\ \A f \in DOMAIN stackConfig.config :
          f # "athenaResultsPrefix" => stackConfig.config[f] = "value"
    /\ stackResult = Thrown(MissingRequired("athenaResultsPrefix"), {})

\* the items of the configuration surface among the fields of a configuration:
\* source tables, output bucket and prefixes, schedule, sizing of the
\* function, date filters
Surface(stack) ==
    CASE stack = "CatNormalizeStack" -> {"s3BucketName", "dynamoTableName", "lambda", "schedule"}
      [] stack = "CatEtlStack" -> {"dataBucketName", "cleanPrefix", "curatedPrefix"}
      [] stack = "CatProdTokensStack" ->
            {"oldDynamoTableName", "newDynamoTableName", "outputBucket", "outputPrefix",
             "schedule", "dateFilter"}
      [] stack = "PipelineStack" -> {}

\* an item of the surface is missing, or a date filter is not YYYY-MM-DD
SurfaceItemInvalid ==
    \E f \in Surface(stackConfig.stack) :
       \/ stackConfig.config[f] = "undefined"
       \/ f = "dateFilter" /\ stackConfig.config[f] = "malformed"

\* C19: when the constructor of a stack has run on a configuration in which
\* an item of the configuration surface is missing, or a date filter is not
\* of the form YYYY-MM-DD, it has rejected the configuration and the stack
\* has no resource.
C19_SurfaceValidated ==
    (stackResult.ran /\ SurfaceItemInvalid) => Rejected

\* ------------------------------------------------------------------------
\* Vocabulary of the environment claims
\* ------------------------------------------------------------------------

\* a context value or a variable is set when it holds a non-empty string
IsSet(value) == value # Unset /\ value # Str("")

\* the context value if set, else the variable, else 'test'
Resolved ==
    IF IsSet(context) THEN context.s
    ELSE IF IsSet(envVar) THEN envVar.s
    ELSE "test"

ProdConfigurations == {"prodNormalizeConfig", "prodEtlConfig", "prodPipelineConfig"}

TestConfigurations == {"testNormalizeConfig", "testEtlConfig", "testPipelineConfig"}

\* C20: each app entrypoint that has run has resolved the environment as the
\* context value 'environment' if set (to a non-empty string), else the
\* ENVIRONMENT variable if set, else 'test'; when the resolved value is
\* neither 'test' nor 'prod' it has thrown and created no stack; when it is
\* 'prod' it has created its stacks with prod configurations only, when it is
\* 'test' with test configurations only.
C20_EnvironmentSelection ==
    \A app \in Apps :
       appRuns[app].ran =>
          /\ appRuns[app].environment = Resolved
          /\ Resolved \notin {"test", "prod"}
                => appRuns[app].thrown /\ appRuns[app].stacks = {}
          /\ Resolved = "prod" =>
                /\ ~appRuns[app].thrown
                /\ appRuns[app].stacks # {}
                /\ \A stack \in appRuns[app].stacks :
                      stack.config \in ProdConfigurations /\ stack.environment = "prod"
          /\ Resolved = "test" =>
                /\ ~appRuns[app].thrown
                /\ appRuns[app].stacks # {}
                /\ \A stack \in appRuns[app].stacks :
                      stack.config \in TestConfigurations /\ stack.environment = "test"

\* C20 witness: both apps have run with the context set to 'prod' and the
\* variable to 'test', and have created prod stacks.
C20_Witness ==
    /\ context = Str("prod")
    /\ envVar = Str("test")
    /\ \A app \in Apps :
          /\ appRuns[app].ran
          /\ appRuns[app].environment = "prod"
          /\ appRuns[app].stacks # {}

\* ------------------------------------------------------------------------
\* Claims on the routing of text items and on the two heuristics together
\* ------------------------------------------------------------------------

\* the map is one entry that holds one text item with a str body
OneTextItem ==
    /\ Len(message_map) = 1
    /\ message_map[1].contentKind = "list"
    /\ Len(TextBodies(message_map)) = 1
    /\ Len(message_map[1].items) = 1

\* the role of the only entry, as the legacy heuristic reads it: '' when
\* the key is missing, lower-cased
RoleRead ==
    IF message_map[1].role.kind = "str" THEN lower(message_map[1].role.s) ELSE ""

\* C24: on a map of one text item with a str body, the legacy heuristic adds
\* the count of the item (the length of the body divided by four) to
\* input_tokens when the role of the entry is user or system, to
\* output_tokens when it is assistant or bot, to neither for any other role;
\* in no case to both.
C24_TextRoutedByRole ==
    (OneTextItem /\ ReturnedPair(legacy)) =>
       LET count == Len(message_map[1].items[1].body.s) \div 4
       IN /\ RoleRead \in {"user", "system"} => legacy = Returned(count, 0)
          /\ RoleRead \in {"assistant", "bot"} => legacy = Returned(0, count)
          /\ RoleRead \notin RecognizedRoles => legacy = Returned(0, 0)
          /\ legacy.input_tokens = 0 \/ legacy.output_tokens = 0

\* C24 witness: the legacy heuristic has counted the two tokens of a text
\* item of a system entry on input_tokens.
C24_Witness ==
    /\ OneTextItem
    /\ message_map[1].role = RoleStr("system")
    /\ legacy = Returned(2, 0)

\* every item of the map is a text item with a str body and every role is
\* one of user, system, assistant, bot
PlainTextMap ==
    /\ \A k \in DOMAIN message_map :
          /\ message_map[k].contentKind = "list"
          /\ message_map[k].role.kind = "str"
          /\ message_map[k].role.s \in RecognizedRoles
    /\ Len(TextBodies(message_map)) = Len(AllItems(message_map))

C29_KeysPreservedRowsUnaltered ==
    runStatus = "ok" =>
       /\ KeysOf(OutputRows) = KeysOf(ArchivalRows) \cup KeysOf(NewRows)
       /\ \A k \in DOMAIN OutputRows :
             OutputRows[k] \in Range(ArchivalRows) \cup Range(NewRows)

\* C29 witness: the job has run on an archival row and two new rows, one of
\* the key of the archival row and one of another key; both keys are in the
\* output, one row of each source.
C29_Witness ==
    /\ runStatus = "ok"
    /\ Len(ArchivalRows) = 1
    /\ Len(NewRows) = 2
    /\ \E j \in DOMAIN NewRows : RowKey(NewRows[j]) = RowKey(ArchivalRows[1])
    /\ Len(OutputRows) = 2
    /\ {OutputRows[k].source : k \in DOMAIN OutputRows} = {"old_table", "new_table"}

\* ------------------------------------------------------------------------
\* Claim on the schedules
\* ------------------------------------------------------------------------

\* the daily schedule rule of the stack class the configuration is given to
ScheduleRuleOf(stack) ==
    IF stack = "CatNormalizeStack" THEN "DailyETLSchedule" ELSE "DailyTokensSchedule"

ScheduledStacks == {"CatNormalizeStack", "CatProdTokensStack"}

\* the constructor has returned
Built == stackResult.ran /\ stackResult.error = NoError

\* the stack given the configuration c has been built
BuiltFrom(stack, c) == Built /\ stackConfig = ConfigFor(stack, c)

\* C21: a stack of the extract function or of the token functions that has
\* been built holds its daily schedule rule if and only if schedule.enabled
\* is true in its configuration; built from the shipped configurations, the
\* prod stacks hold the rule and the test stacks do not, and no other
\* resource of a test stack invokes the functions.
C21_ScheduleIffEnabled ==
    /\ (Built /\ stackConfig.stack \in ScheduledStacks) =>
          (ScheduleRuleOf(stackConfig.stack) \in stackResult.resources
              <=> stackConfig.config["schedule"] = "value")
    /\ BuiltFrom("CatNormalizeStack", ShippedNormalize(prodNormalizeConfig))
          => "DailyETLSchedule" \in stackResult.resources
    /\ BuiltFrom("CatNormalizeStack", ShippedNormalize(testNormalizeConfig))
          => stackResult.resources = {"NormalizeReportsBucket", "ETLLambdaRole",
                                      "NormalizeLambda", "Outputs"}
    /\ BuiltFrom("CatProdTokensStack", ShippedTokens(prodTokensConfig))
          => "DailyTokensSchedule" \in stackResult.resources
    /\ BuiltFrom("CatProdTokensStack", ShippedTokens(testTokensConfig))
          => stackResult.resources
                = {"PythonDependenciesLayer", "ArchivalLambdaRole", "ArchivalLambda",
                   "ConsolidatedLambdaRole", "ConsolidatedLambda", "Outputs"}

\* C21 witness: the extract stack has been built from the shipped test
\* configuration, without a schedule rule.
C21_Witness ==
    /\ BuiltFrom("CatNormalizeStack", ShippedNormalize(testNormalizeConfig))
    /\ "DailyETLSchedule" \notin stackResult.resources
    /\ "NormalizeLambda" \in stackResult.resources

\* ------------------------------------------------------------------------
\* The stages sharing the bucket
\* ------------------------------------------------------------------------
NonExtractStages == Stages \ {"extract"}

\* the identifiers an event can carry within the bounds
EventIds == 0..(2 * MaxSteps + 1)

ExtractEvent(id, environment) ==
    S3Event(id, "Object Created", StageBucket("extract", environment),
            StageKey("extract", environment))

\* the startJobRun calls an event caused
StartsCausedBy(e) == {c \in apiCalls : c.action = "startJobRun" /\ c.cause = e}

\* C26: with the shipped configurations no location a stage other than the
\* extract stage writes to (transform output, deployed script, Athena
\* results, token-analytics output and archive) starts with cleanPrefix, and
\* in every interleaving of stage writes, transform runs and deliveries each
\* startJobRun call was caused by an object of the extract stage: none of
\* the other stages' objects arms the transform.
C26_NoSelfTrigger ==
    /\ \A environment \in Environments :
          /\ ~StartsWith(ParquetKey, EtlConfig(environment).cleanPrefix)
          /\ ~StartsWith(EtlConfig(environment).curatedPrefix,
                         EtlConfig(environment).cleanPrefix)
          /\ \A stage \in NonExtractStages :
                ~StartsWith(StageKey(stage, environment),
                            EtlConfig(environment).cleanPrefix)
    /\ \A c \in apiCalls : c.action = "startJobRun" =>
          \E environment \in Environments :
              /\ c.cause.source = "aws.s3"
              /\ c.cause.bucket = StageBucket("extract", environment)
              /\ c.cause.key = StageKey("extract", environment)
    /\ \A e \in delivered :
          (e.source = "aws.glue" \/ e.key = ParquetKey
              \/ \E stage \in NonExtractStages, environment \in Environments :
                    e.key = StageKey(stage, environment))
          => StartsCausedBy(e) = {}

\* C26 witness: the object of a stage other than the extract stage, or the
\* output of a transform run, was created and its event delivered, and no
\* run was started by it.
C26_Witness ==
    \E e \in delivered :
        /\ e.source = "aws.s3"
        /\ \/ e.key = ParquetKey
           \/ \E stage \in NonExtractStages, environment \in Environments :
                 e.key = StageKey(stage, environment)
        /\ StartsCausedBy(e) = {}

\* the transform runs of an environment the orchestrator started that succeeded
SucceededRuns(environment) ==
    {r \in jobRuns : /\ r.jobName = jobName(environment)
                     /\ r.startedBy = "rule"
                     /\ r.state = "SUCCEEDED"}

CrawlerStarts(environment) ==
    {c \in apiCalls : /\ c.action = "startCrawler"
                      /\ c.name = "cat-" \o environment \o "-curated-crawler"}

\* the three places of CatEtlStack that name the transform job agree
JobNamesAgree(environment) ==
    LET name == "cat-" \o environment \o "-etl2-parquet"
    IN /\ \A i \in DOMAIN OnCsvArrivedTargets(environment) :
             OnCsvArrivedTargets(environment)[i].name = name
       /\ CrawlerTriggerMatches(environment,
             GlueEvent(0, "Glue Job State Change", name, "SUCCEEDED"))
       /\ \A r \in jobRuns : r.startedBy = "rule" =>
             \E e \in Environments : r.jobName = "cat-" \o e \o "-etl2-parquet"

\* C27: the orchestrator's target, the crawler trigger rule and the Glue job
\* carry the same name cat-{environment}-etl2-parquet, and whenever k
\* transform runs started by the orchestrator have reached SUCCEEDED, the
\* crawler cat-{environment}-curated-crawler is eventually started k times.
C27_SucceededRunStartsCrawler ==
    \A environment \in Environments : \A k \in 1..MaxRuns :
        (Cardinality(SucceededRuns(environment)) >= k)
            ~> (/\ JobNamesAgree(environment)
                /\ Cardinality(CrawlerStarts(environment)) >= k)

\* C27 witness: a run the orchestrator started has succeeded and the crawler
\* of its environment was started.
C27_Witness ==
    \E environment \in Environments :
        /\ SucceededRuns(environment) # {}
        /\ CrawlerStarts(environment) # {}

\* C28: in each environment the extract stage writes to the bucket and
\* prefix the orchestration rule matches, and every object the extract
\* stage has written, its event published by the bucket, eventually causes
\* a startJobRun call of that environment's transform job.
C28_ExtractArmsTransform ==
    \A environment \in Environments : \A id \in EventIds :
        (ExtractEvent(id, environment) \in bus)
            ~> (/\ NormalizeConfig(environment).s3BucketName
                      = EtlConfig(environment).dataBucketName
                /\ NormalizeConfig(environment).s3Prefix
                      = EtlConfig(environment).cleanPrefix
                /\ \E c \in StartsCausedBy(ExtractEvent(id, environment)) :
                      c.name = jobName(environment))

\* C28 witness: the extract stage of the test environment wrote its CSV and
\* the transform job of the test environment was started by that object.
C28_Witness ==
    \E id \in EventIds :
        /\ [bucket |-> testNormalizeConfig.s3BucketName,
            key |-> StageKey("extract", "test")] \in objects
        /\ \E c \in StartsCausedBy(ExtractEvent(id, "test")) :
              c.name = jobName("test")

\* ------------------------------------------------------------------------
\* Write permissions of the stages
\* ------------------------------------------------------------------------

\* C23: every object written under a stage's role lies under that stage's
\* designated prefix (historicalPrefix for the archival job, outputPrefix
\* for the consolidated job, curatedPrefix for the transform job, the CSV
\* prefix for the extract job) of the stage's own bucket: the role of a
\* stage allows no write elsewhere.
C23_WritesOnlyUnderOwnPrefix ==
    \A p \in puts :
        /\ p.bucket = StageBucket(IF p.stage = "transform" THEN "script" ELSE p.stage,
                                  p.environment)
        /\ StartsWith(p.key, DesignatedPrefix(p.stage, p.environment))

\* ------------------------------------------------------------------------
\* Executions of the CI/CD pipeline
\* ------------------------------------------------------------------------
StageNames(config) ==
    [i \in DOMAIN PipelineStages(config) |-> PipelineStages(config)[i].stageName]

Started(x, actionName) == executions[x].actions[actionName] # "NotStarted"

DeployActions == {"Deploy_Normalize_Stack", "Deploy_ETL_Stack"}

\* the position of a stage in the order Source, BuildAndTest, ManualApproval, Deploy
StageRank(actionName) ==
    CASE actionName = "GitHub_Source" -> 1
      [] actionName = "CDK_Synth_Test" -> 2
      [] actionName = "Approve_Deployment" -> 3
      [] actionName \in DeployActions -> 4

\* C22: the pipeline holds the stages Source, BuildAndTest, ManualApproval
\* (if and only if requireManualApproval is true), Deploy in that order; in
\* every execution an action has started only if the actions of the stages
\* before it have succeeded; with requireManualApproval a deploy action has
\* started only if the approval was approved, and after a rejected approval
\* no deploy action has started.
C22_StagesInOrder ==
    /\ StageNames(pipelineConfig) =
          IF pipelineConfig.requireManualApproval
             THEN <<"Source", "BuildAndTest", "ManualApproval", "Deploy">>
             ELSE <<"Source", "BuildAndTest", "Deploy">>
    /\ prodPipelineConfig.requireManualApproval
    /\ \A x \in ExecutionIds :
          /\ \A a \in ActionNames : Started(x, a) =>
                /\ a \in ActionsOf(pipelineConfig)
                /\ \A b \in ActionsOf(pipelineConfig) :
                      StageRank(b) < StageRank(a) => executions[x].actions[b] = "Succeeded"
          /\ pipelineConfig.requireManualApproval =>
                /\ (\E d \in DeployActions : Started(x, d))
                      => executions[x].actions["Approve_Deployment"] = "Succeeded"
                /\ executions[x].actions["Approve_Deployment"] = "Failed"
                      => \A d \in DeployActions : ~Started(x, d)

\* C22 witness: in the prod pipeline one execution was approved and has
\* started to deploy, and another was rejected.
C22_Witness ==
    /\ pipelineConfig = prodPipelineConfig
    /\ \E x, y \in ExecutionIds :
          /\ executions[x].actions["Approve_Deployment"] = "Succeeded"
          /\ Started(x, "Deploy_Normalize_Stack")
          /\ executions[y].actions["Approve_Deployment"] = "Failed"
          /\ executions[y].status = "Failed"

\* C25: in every execution the ETL stack deploy action has started only if
\* the Normalize stack deploy action has succeeded, and after a failed
\* Normalize deploy the ETL deploy has not started.
C25_NormalizeBeforeEtl ==
    \A x \in ExecutionIds :
        /\ Started(x, "Deploy_ETL_Stack")
              => executions[x].actions["Deploy_Normalize_Stack"] = "Succeeded"
        /\ executions[x].actions["Deploy_Normalize_Stack"] = "Failed"
              => ~Started(x, "Deploy_ETL_Stack")

\* C25 witness: one execution deploys the ETL stack after the Normalize
\* stack succeeded; in another the Normalize deploy failed.
C25_Witness ==
    \E x, y \in ExecutionIds :
        /\ executions[x].actions["Deploy_Normalize_Stack"] = "Succeeded"
        /\ executions[x].actions["Deploy_ETL_Stack"] = "InProgress"
        /\ executions[y].actions["Deploy_Normalize_Stack"] = "Failed"
        /\ executions[y].status = "Failed"

====
